---------------------------- MODULE Spec2Model ----------------------------
(***************************************************************************)
(* A model of the DXF block extraction pipeline:                           *)
(*   src/src/core/geometry_processor.py   GeometryProcessor                *)
(*   src/src/core/block_extractor.py      BlockExtractor                   *)
(*                                                                         *)
(* Numbers.  The Python code works on floats.  Here coordinates are        *)
(* integers, and the values of math.cos / math.sin are fixed-point numbers *)
(* with TrigScale parts per unit; a product with a cosine or sine is       *)
(* rounded to the nearest integer.  For the quarter turns this is exact.   *)
(* calculate_area returns abs(area) / 2.0: an area is represented by the   *)
(* integer abs(area), that is in HALF square units, so that the division   *)
(* by 2.0 loses nothing (the comparison of two areas is unaffected).       *)
(***************************************************************************)
EXTENDS Integers, Sequences, FiniteSets, TLC

None == "None"

(* An Optional[List]: None, or a list *)
NoList == [is_none |-> TRUE, list |-> <<>>]

List(l) == [is_none |-> FALSE, list |-> l]

(* Python's truth value of an Optional[List]: neither None nor empty *)
truthy(x) == ~x.is_none /\ Len(x.list) > 0

Abs(n) == IF n < 0 THEN -n ELSE n

(* n / d rounded to the nearest integer (d > 0), halves rounded up *)
RoundDiv(n, d) == (2 * n + d) \div (2 * d)

Reverse(s) == [i \in 1..Len(s) |-> s[Len(s) + 1 - i]]

(* All sequences over S of length lo..hi *)
SeqsOf(S, lo, hi) == UNION {[1..n -> S] : n \in lo..hi}

(***************************************************************************)
(* Bounds of the model                                                     *)
(***************************************************************************)
MaxVerts == 4
MaxNested == 2
MaxDepthLimit == 2

(***************************************************************************)
(* math.cos and math.sin                                                   *)
(***************************************************************************)
TrigScale == 1000

(* extract_circle_vertices(center, radius, segments: int = 32) *)
Segments == 32

(* TrigScale * cos(k * 2 pi / 32) for k = 0..8 (the first quarter turn) *)
CosTab == <<1000, 981, 924, 831, 707, 556, 383, 195, 0>>

(* TrigScale * cos(2 pi k / Segments), by the symmetries of the cosine *)
CosSeg(k) ==
    LET m == k % Segments
    IN  IF m <= 8 THEN CosTab[m + 1]
        ELSE IF m <= 16 THEN -CosTab[16 - m + 1]
        ELSE IF m <= 24 THEN -CosTab[m - 16 + 1]
        ELSE CosTab[32 - m + 1]

(* TrigScale * sin(2 pi k / Segments) = cos of the angle less a quarter turn *)
SinSeg(k) == CosSeg(k + 24)

(* math.radians(rotation) for a rotation of a whole number of 45-degree     *)
(* steps, as a number of 1/32 turns                                        *)
radians(rotation) == ((rotation % 360) * Segments) \div 360

(***************************************************************************)
(* GeometryProcessor.calculate_area                                        *)
(***************************************************************************)
(* The loop of lines 30-33: area += v[i].x * v[j].y; area -= v[j].x * v[i].y *)
RECURSIVE ShoelaceSum(_, _)
ShoelaceSum(vertices, i) ==
    IF i > Len(vertices) THEN 0
    ELSE LET j == (i % Len(vertices)) + 1
         IN  vertices[i][1] * vertices[j][2] - vertices[j][1] * vertices[i][2]
             + ShoelaceSum(vertices, i + 1)

(* Line 35, mutated: the sum is returned without abs() *)
calculate_area_signed(vertices) ==
    IF Len(vertices) < 3 THEN 0 ELSE ShoelaceSum(vertices, 1)

(* Lines 24-35 *)
calculate_area(vertices) ==
    IF Len(vertices) < 3 THEN 0 ELSE Abs(ShoelaceSum(vertices, 1))

(***************************************************************************)
(* GeometryProcessor.transform_vertices                                    *)
(***************************************************************************)
(* Lines 67-80, mutated: 1. translate, 2. rotate, 3. scale *)
transform_vertex_reordered(v, insert_point, rotation, scale_x, scale_y) ==
    LET rad   == radians(rotation)
        cos_r == CosSeg(rad)
        sin_r == SinSeg(rad)
        x     == v[1] + insert_point[1]
        y     == v[2] + insert_point[2]
        x_rot == RoundDiv(x * cos_r - y * sin_r, TrigScale)
        y_rot == RoundDiv(x * sin_r + y * cos_r, TrigScale)
    IN  <<x_rot * scale_x, y_rot * scale_y>>

(* One vertex: 1. scale, 2. rotate, 3. translate (lines 67-80) *)
transform_vertex(v, insert_point, rotation, scale_x, scale_y) ==
    LET rad   == radians(rotation)
        cos_r == CosSeg(rad)
        sin_r == SinSeg(rad)
        x     == v[1] * scale_x
        y     == v[2] * scale_y
        x_rot == RoundDiv(x * cos_r - y * sin_r, TrigScale)
        y_rot == RoundDiv(x * sin_r + y * cos_r, TrigScale)
    IN  <<x_rot + insert_point[1], y_rot + insert_point[2]>>

transform_vertices(vertices, insert_point, rotation, scale_x, scale_y) ==
    IF vertices = <<>> THEN <<>>
    ELSE [i \in 1..Len(vertices) |->
            transform_vertex(vertices[i], insert_point, rotation, scale_x, scale_y)]

(***************************************************************************)
(* GeometryProcessor.extract_circle_vertices                               *)
(***************************************************************************)
extract_circle_vertices(center, radius) ==
    [k \in 1..Segments |->
        <<center[1] + RoundDiv(radius * CosSeg(k - 1), TrigScale),
          center[2] + RoundDiv(radius * SinSeg(k - 1), TrigScale)>>]

(***************************************************************************)
(* The drawing document (ezdxf): entities, block definitions, model space  *)
(***************************************************************************)
NoPoint == <<0, 0>>

LWPolyline(points, closed) ==
    [dxftype |-> "LWPOLYLINE", points |-> points, closed |-> closed,
     center |-> NoPoint, radius |-> 0, name |-> None,
     insert |-> NoPoint, rotation |-> 0, xscale |-> 1, yscale |-> 1]

Polyline(points, closed) ==
    [dxftype |-> "POLYLINE", points |-> points, closed |-> closed,
     center |-> NoPoint, radius |-> 0, name |-> None,
     insert |-> NoPoint, rotation |-> 0, xscale |-> 1, yscale |-> 1]

Circle(center, radius) ==
    [dxftype |-> "CIRCLE", points |-> <<>>, closed |-> TRUE,
     center |-> center, radius |-> radius, name |-> None,
     insert |-> NoPoint, rotation |-> 0, xscale |-> 1, yscale |-> 1]

Line(points) ==
    [dxftype |-> "LINE", points |-> points, closed |-> FALSE,
     center |-> NoPoint, radius |-> 0, name |-> None,
     insert |-> NoPoint, rotation |-> 0, xscale |-> 1, yscale |-> 1]

Insert(name, insert, rotation, xscale, yscale) ==
    [dxftype |-> "INSERT", points |-> <<>>, closed |-> FALSE,
     center |-> NoPoint, radius |-> 0, name |-> name,
     insert |-> insert, rotation |-> rotation, xscale |-> xscale, yscale |-> yscale]

BlockNames == {"A", "B"}

(* The entities the documents of the model are made of *)
Square       == LWPolyline(<< <<0, 0>>, <<20, 0>>, <<20, 20>>, <<0, 20>> >>, TRUE)
Rectangle    == Polyline(<< <<0, 0>>, <<40, 0>>, <<40, 10>>, <<0, 10>> >>, TRUE)
OpenTriangle == LWPolyline(<< <<0, 0>>, <<40, 0>>, <<0, 30>> >>, FALSE)
TwoPoints    == Polyline(<< <<0, 0>>, <<50, 50>> >>, FALSE)
Collinear    == LWPolyline(<< <<0, 0>>, <<10, 10>>, <<20, 20>> >>, TRUE)
RoundPillar  == Circle(<<0, 0>>, 10)
PointCircle  == Circle(<<5, 5>>, 0)
AxisLine     == Line(<< <<0, 0>>, <<10, 0>> >>)

(* The placement of an instance of a block *)
InsertOf(name) ==
    IF name = "A" THEN Insert("A", <<100, 0>>, 90, 2, 1)
    ELSE Insert(name, <<0, 50>>, 0, 1, 1)

InsertSeqs == {[i \in 1..Len(s) |-> InsertOf(s[i])] : s \in SeqsOf(BlockNames, 0, MaxNested)}

(* The direct geometry of a block of an extraction run: block "A" has a    *)
(* closed square or no polyline at all, block "B" an open polyline or none *)
GeomParts(name) ==
    IF name = "A" THEN {<<>>, <<Square>>} ELSE {<<>>, <<OpenTriangle>>}

BlockBodies(name) == {g \o n : g \in GeomParts(name), n \in InsertSeqs}

(* Model space holds an instance of each block name and an entity that is  *)
(* no instance; block "A" is always defined, "B" may be absent from the    *)
(* document                                                                *)
Documents ==
    {[modelspace |-> <<InsertOf("A"), AxisLine, InsertOf("B")>>, blocks |-> b] :
        b \in UNION {{f \in [S -> BlockBodies("A") \cup BlockBodies("B")] :
                        \A n \in S : f[n] \in BlockBodies(n)} :
                     S \in {{"A"}, BlockNames}}}

(***************************************************************************)
(* State                                                                   *)
(***************************************************************************)
VARIABLES
    doc,                  \* self.doc: [modelspace, blocks]
    max_depth,            \* the argument of extract_all_blocks
    status,               \* "running" | "done" | "raised" (an exception left the run)
    entities,             \* extract_all_blocks: the local list entities
    ms_idx,               \* extract_all_blocks: position of the loop over modelspace
    stack,                \* the active calls of _extract_from_insert, innermost last
    result,               \* what extract_all_blocks returned
    block_geometry_cache, \* self.block_geometry_cache (NoList: no entry)
    warnings,             \* self.logger.warning: the messages logged, by kind
    scans,                \* history: scans of a block's primitives, per block name
    resolves,             \* history: calls of _extract_block_geometry, per block name
    resolved,             \* history: the set of results of those calls, per block name
    geo_in,               \* a call of a GeometryProcessor function: its arguments
    geo_out,              \* and its result
    classifier,           \* which classifier class the object is an instance of
    enable_cache,         \* self.enable_cache
    cache_manager,        \* self.cache: None or a CacheManager (its dict self.cache)
    stats,                \* self.stats
    clock,                \* datetime.now()
    calls                 \* history: the calls made so far, with what they returned

vars == <<doc, max_depth, status, entities, ms_idx, stack, result,
          block_geometry_cache, warnings, scans, resolves, resolved,
          geo_in, geo_out,
          classifier, enable_cache, cache_manager, stats, clock, calls>>

extractor_vars == <<doc, max_depth, status, entities, ms_idx, stack, result,
                    block_geometry_cache, warnings, scans, resolves, resolved>>

geo_vars == <<geo_in, geo_out>>

classifier_vars == <<classifier, enable_cache, cache_manager, stats, clock, calls>>

(* No classifier has been constructed *)
NoClassifier ==
    /\ classifier = "none"
    /\ enable_cache = FALSE
    /\ cache_manager = [is_none |-> TRUE, cache |-> <<>>]
    /\ stats = <<>>
    /\ clock = 0
    /\ calls = <<>>

(***************************************************************************)
(* BlockExtractor._extract_block_geometry                                  *)
(***************************************************************************)
(* Lines 160-182: the vertices of one entity of the block, None for an     *)
(* entity that is no LWPOLYLINE, POLYLINE or CIRCLE                        *)
entity_vertices(entity) ==
    IF entity.dxftype = "LWPOLYLINE" THEN List(entity.points)
    ELSE IF entity.dxftype = "POLYLINE" THEN List(entity.points)
    ELSE IF entity.dxftype = "CIRCLE"
        THEN List(extract_circle_vertices(entity.center, entity.radius))
    ELSE NoList

(* Line 187, mutated: a later primitive of equal area replaces the incumbent *)
area_replaces_or_ties(area, largest_area) == area >= largest_area

(* Line 187: if area > largest_area *)
area_replaces(area, largest_area) == area > largest_area

(* Lines 156-189: the loop over the block's entities; the result is        *)
(* largest_polyline                                                        *)
RECURSIVE scan_block(_, _, _, _)
scan_block(block_entities, i, largest_polyline, largest_area) ==
    IF i > Len(block_entities) THEN largest_polyline
    ELSE LET vertices == entity_vertices(block_entities[i])
         IN  IF truthy(vertices) /\ Len(vertices.list) >= 3
                THEN LET area == calculate_area(vertices.list)
                     IN  IF area_replaces(area, largest_area)
                            THEN scan_block(block_entities, i + 1, vertices, area)
                            ELSE scan_block(block_entities, i + 1,
                                            largest_polyline, largest_area)
                ELSE scan_block(block_entities, i + 1, largest_polyline, largest_area)

(* Lines 191-193, mutated: nothing is ever stored *)
cache_store_never(cache, block_name, largest_polyline) == cache

(* Lines 191-193: if largest_polyline: cache[block_name] = largest_polyline *)
cache_store(cache, block_name, largest_polyline) ==
    IF truthy(largest_polyline)
        THEN [cache EXCEPT ![block_name] = largest_polyline]
        ELSE cache

(* The whole method, for the block named block_name with the entities      *)
(* block_entities, on the cache `cache`: what it returns, the cache it     *)
(* leaves, and whether it scanned the block's primitives                   *)
_extract_block_geometry(block_name, block_entities, cache) ==
    IF ~cache[block_name].is_none
        THEN [geometry |-> cache[block_name], cache |-> cache, scanned |-> FALSE]
        ELSE LET largest_polyline == scan_block(block_entities, 1, NoList, 0)
             IN  [geometry |-> largest_polyline,
                  cache    |-> cache_store(cache, block_name, largest_polyline),
                  scanned  |-> TRUE]

(***************************************************************************)
(* BlockExtractor.extract_all_blocks and _extract_from_insert              *)
(***************************************************************************)
NoCache == [n \in BlockNames |-> NoList]

NoCount == [n \in BlockNames |-> 0]

NoGeoCall == [fn |-> "none", vertices |-> <<>>, insert_point |-> NoPoint,
              rotation |-> 0, scale_x |-> 1, scale_y |-> 1]

Init ==
    /\ doc \in Documents
    /\ max_depth \in 0..MaxDepthLimit
    /\ status = "running"
    /\ entities = <<>>
    /\ ms_idx = 1
    /\ stack = <<>>
    /\ result = <<>>
    /\ block_geometry_cache = NoCache
    /\ warnings = [depth |-> 0, missing |-> 0]
    /\ scans = NoCount
    /\ resolves = NoCount
    /\ resolved = [n \in BlockNames |-> {}]
    /\ geo_in = NoGeoCall
    /\ geo_out = <<>>
    /\ NoClassifier

(* A call of _extract_from_insert, at its first line.  path is history:    *)
(* the positions, in model space and then in each block, of the instance   *)
(* references that lead to this one.                                       *)
Frame(insert_entity, depth, path) ==
    [insert_entity |-> insert_entity, depth |-> depth, pc |-> "entry",
     entities |-> <<>>, idx |-> 1, path |-> path]

Top == stack[Len(stack)]

(* entities.extend(extracted), mutated: the callee's entities are put first *)
extend_front(list, extracted) == extracted \o list

(* entities.extend(extracted): lines 53 and 133 *)
extend(list, extracted) == list \o extracted

(* The innermost call returns `extracted` to its caller, which extends its *)
(* list with it and goes on to the next entity of its loop                 *)
Return(extracted) ==
    IF Len(stack) = 1
        THEN /\ stack' = <<>>
             /\ entities' = extend(entities, extracted)
             /\ ms_idx' = ms_idx + 1
        ELSE /\ stack' = [SubSeq(stack, 1, Len(stack) - 1) EXCEPT
                            ![Len(stack) - 1].entities = extend(@, extracted),
                            ![Len(stack) - 1].idx = @ + 1]
             /\ UNCHANGED <<entities, ms_idx>>

(* Lines 46-47: the loop of extract_all_blocks is at an entity of model     *)
(* space that is no INSERT                                                 *)
AtModelspaceOther ==
    /\ status = "running" /\ stack = <<>>
    /\ ms_idx <= Len(doc.modelspace)
    /\ doc.modelspace[ms_idx].dxftype # "INSERT"

(* Lines 46-47: the loop is at an INSERT of model space *)
AtModelspaceInsert ==
    /\ status = "running" /\ stack = <<>>
    /\ ms_idx <= Len(doc.modelspace)
    /\ doc.modelspace[ms_idx].dxftype = "INSERT"

(* Line 46: the loop over model space is over *)
AtModelspaceEnd ==
    /\ status = "running" /\ stack = <<>>
    /\ ms_idx > Len(doc.modelspace)

(* Lines 46-47: an entity of model space that is no INSERT *)
ModelspaceSkip ==
    /\ AtModelspaceOther
    /\ ms_idx' = ms_idx + 1
    /\ UNCHANGED <<doc, max_depth, status, entities, stack, result,
                   block_geometry_cache, warnings, scans, resolves, resolved>>
    /\ UNCHANGED geo_vars
    /\ UNCHANGED classifier_vars

(* Lines 46-52: an INSERT of model space: _extract_from_insert(entity, depth=0) *)
ModelspaceCall ==
    /\ AtModelspaceInsert
    /\ stack' = <<Frame(doc.modelspace[ms_idx], 0, <<ms_idx>>)>>
    /\ UNCHANGED <<doc, max_depth, status, entities, ms_idx, result,
                   block_geometry_cache, warnings, scans, resolves, resolved>>
    /\ UNCHANGED geo_vars
    /\ UNCHANGED classifier_vars

(* Lines 55-56: the loop is over: return entities *)
ExtractAllReturn ==
    /\ AtModelspaceEnd
    /\ result' = entities
    /\ status' = "done"
    /\ UNCHANGED <<doc, max_depth, entities, ms_idx, stack,
                   block_geometry_cache, warnings, scans, resolves, resolved>>
    /\ UNCHANGED geo_vars
    /\ UNCHANGED classifier_vars

(* Line 77, mutated: one level too many *)
depth_exceeded_late(depth, limit) == depth > limit + 1

(* Line 77: if depth > max_depth *)
depth_exceeded(depth, limit) == depth > limit

(* Line 85, mutated: the block is never looked up before it is used *)
block_missing_unchecked(block_name, blocks) == FALSE

(* Line 85: if block_name not in self.doc.blocks *)
block_missing(block_name, blocks) == block_name \notin DOMAIN blocks

(* Line 77: a call of _extract_from_insert, at its first line, is too deep *)
AtDepthExceeded ==
    /\ status = "running" /\ stack # <<>> /\ Top.pc = "entry"
    /\ depth_exceeded(Top.depth, max_depth)

(* Line 85: the call is not too deep and its block is not in the document *)
AtBlockMissing ==
    /\ status = "running" /\ stack # <<>> /\ Top.pc = "entry"
    /\ ~depth_exceeded(Top.depth, max_depth)
    /\ block_missing(Top.insert_entity.name, doc.blocks)

(* Line 89: the call has passed both checks *)
AtBlockLookup ==
    /\ status = "running" /\ stack # <<>> /\ Top.pc = "entry"
    /\ ~depth_exceeded(Top.depth, max_depth)
    /\ ~block_missing(Top.insert_entity.name, doc.blocks)

(* Lines 125-126: the loop of the call is at an entity that is no INSERT *)
AtNestedOther ==
    /\ status = "running" /\ stack # <<>> /\ Top.pc = "loop"
    /\ LET block == doc.blocks[Top.insert_entity.name]
       IN  /\ Top.idx <= Len(block)
           /\ block[Top.idx].dxftype # "INSERT"

(* Lines 125-126: the loop of the call is at an INSERT *)
AtNestedInsert ==
    /\ status = "running" /\ stack # <<>> /\ Top.pc = "loop"
    /\ LET block == doc.blocks[Top.insert_entity.name]
       IN  /\ Top.idx <= Len(block)
           /\ block[Top.idx].dxftype = "INSERT"

(* Line 125: the loop of the call is over *)
AtNestedEnd ==
    /\ status = "running" /\ stack # <<>> /\ Top.pc = "loop"
    /\ Top.idx > Len(doc.blocks[Top.insert_entity.name])

(* Lines 77-79: warning, return [] *)
DepthExceeded ==
    /\ AtDepthExceeded
    /\ warnings' = [warnings EXCEPT !.depth = @ + 1]
    /\ Return(<<>>)
    /\ UNCHANGED <<doc, max_depth, status, result,
                   block_geometry_cache, scans, resolves, resolved>>
    /\ UNCHANGED geo_vars
    /\ UNCHANGED classifier_vars

(* Lines 81-87: warning, return [] *)
BlockMissing ==
    /\ AtBlockMissing
    /\ warnings' = [warnings EXCEPT !.missing = @ + 1]
    /\ Return(<<>>)
    /\ UNCHANGED <<doc, max_depth, status, result,
                   block_geometry_cache, scans, resolves, resolved>>
    /\ UNCHANGED geo_vars
    /\ UNCHANGED classifier_vars

(* Lines 66-82, mutated: the vertices are transformed in place *)
vertices_after_transform_in_place(vertices, insert_point, rotation, scale_x, scale_y) ==
    transform_vertices(vertices, insert_point, rotation, scale_x, scale_y)

(* Lines 66-82: the list passed to transform_vertices, after the call: the *)
(* function appends to a new list and only reads its argument              *)
vertices_after_transform(vertices, insert_point, rotation, scale_x, scale_y) ==
    vertices

(* Line 97, mutated: the insertion point is counted from the insertion     *)
(* point of the instance that contains this one                            *)
insert_point_in_caller(insert_entity, callers) ==
    IF callers = <<>> THEN insert_entity.insert
    ELSE <<insert_entity.insert[1] + callers[Len(callers)].insert_entity.insert[1],
           insert_entity.insert[2] + callers[Len(callers)].insert_entity.insert[2]>>

(* Lines 63, 97 and 131: insert_point = (insert.x, insert.y) of the        *)
(* instance itself: the calls that lead to this one are not used           *)
(* (parent_transform is None in every nested call, and is never read)      *)
insert_point_of(insert_entity, callers) == insert_entity.insert

(* Lines 113-121, mutated: the polygon is closed by repeating its first    *)
(* vertex                                                                  *)
ExtractedEntity_closing(block_name, vertices, area, insert_point, rotation, depth, path) ==
    [block_name |-> block_name, geometry_type |-> "LWPOLYLINE",
     vertices |-> Append(vertices, vertices[1]), area |-> area,
     insert_point |-> insert_point, rotation |-> rotation, classification |-> None,
     depth |-> depth, path |-> path]

(* Lines 113-121: the entity of an instance.  depth and path are history:  *)
(* where in the traversal the entity was made.                             *)
ExtractedEntity(block_name, vertices, area, insert_point, rotation, depth, path) ==
    [block_name |-> block_name, geometry_type |-> "LWPOLYLINE",
     vertices |-> vertices, area |-> area, insert_point |-> insert_point,
     rotation |-> rotation, classification |-> None,
     depth |-> depth, path |-> path]

(* Lines 89-122: look the block up (a KeyError if it is not there),        *)
(* resolve its geometry and, if there is one, append the entity of this    *)
(* instance; then enter the loop over the block's entities                 *)
ExtractGeometry ==
    /\ AtBlockLookup
    /\ LET ins        == Top.insert_entity
           block_name == ins.name
       IN  IF block_name \notin DOMAIN doc.blocks
             THEN /\ status' = "raised"
                  /\ UNCHANGED <<stack, block_geometry_cache, scans, resolves,
                                 resolved>>
             ELSE LET r == _extract_block_geometry(block_name, doc.blocks[block_name],
                                                   block_geometry_cache)
                      geometry == r.geometry
                      insert_point ==
                          insert_point_of(ins, SubSeq(stack, 1, Len(stack) - 1))
                      transformed_vertices ==
                          transform_vertices(geometry.list, insert_point, ins.rotation,
                                             ins.xscale, ins.yscale)
                      area == calculate_area(transformed_vertices)
                      entity == ExtractedEntity(block_name, transformed_vertices, area,
                                                insert_point, ins.rotation,
                                                Top.depth, Top.path)
                  IN  /\ status' = status
                      /\ scans' = [scans EXCEPT ![block_name] =
                                      IF r.scanned THEN @ + 1 ELSE @]
                      /\ resolves' = [resolves EXCEPT ![block_name] = @ + 1]
                      /\ resolved' = [resolved EXCEPT ![block_name] =
                                         @ \cup {geometry}]
                      /\ IF truthy(geometry)
                            THEN /\ stack' = [stack EXCEPT
                                        ![Len(stack)].pc = "loop",
                                        ![Len(stack)].entities = Append(@, entity)]
                                 /\ block_geometry_cache' =
                                        IF r.cache[block_name].is_none THEN r.cache
                                        ELSE [r.cache EXCEPT ![block_name] =
                                                List(vertices_after_transform(
                                                    geometry.list, insert_point,
                                                    ins.rotation, ins.xscale,
                                                    ins.yscale))]
                            ELSE /\ stack' = [stack EXCEPT ![Len(stack)].pc = "loop"]
                                 /\ block_geometry_cache' = r.cache
    /\ UNCHANGED <<doc, max_depth, entities, ms_idx, result, warnings>>
    /\ UNCHANGED geo_vars
    /\ UNCHANGED classifier_vars

(* Line 129, mutated: the depth is passed on as it is *)
nested_depth_same(depth) == depth

(* Line 129: depth=depth + 1 *)
nested_depth(depth) == depth + 1

(* Lines 125-126: an entity of the block that is no INSERT *)
NestedSkip ==
    /\ AtNestedOther
    /\ stack' = [stack EXCEPT ![Len(stack)].idx = @ + 1]
    /\ UNCHANGED <<doc, max_depth, status, entities, ms_idx, result,
                   block_geometry_cache, warnings, scans, resolves, resolved>>
    /\ UNCHANGED geo_vars
    /\ UNCHANGED classifier_vars

(* Lines 125-132: an INSERT of the block: the recursive call *)
NestedCall ==
    /\ AtNestedInsert
    /\ LET block == doc.blocks[Top.insert_entity.name]
       IN  /\ stack' = Append(stack, Frame(block[Top.idx], nested_depth(Top.depth),
                                           Append(Top.path, Top.idx)))
    /\ UNCHANGED <<doc, max_depth, status, entities, ms_idx, result,
                   block_geometry_cache, warnings, scans, resolves, resolved>>
    /\ UNCHANGED geo_vars
    /\ UNCHANGED classifier_vars

(* Line 135: the loop is over: return entities *)
InsertReturn ==
    /\ AtNestedEnd
    /\ Return(Top.entities)
    /\ UNCHANGED <<doc, max_depth, status, result,
                   block_geometry_cache, warnings, scans, resolves, resolved>>
    /\ UNCHANGED geo_vars
    /\ UNCHANGED classifier_vars

Next ==
    \/ ModelspaceSkip
    \/ ModelspaceCall
    \/ ExtractAllReturn
    \/ DepthExceeded
    \/ BlockMissing
    \/ ExtractGeometry
    \/ NestedSkip
    \/ NestedCall
    \/ InsertReturn

Spec == Init /\ [][Next]_vars

(***************************************************************************)
(* The block geometry resolver on its own: one block, resolved repeatedly  *)
(***************************************************************************)
MaxPrims == 3
MaxResolves == 2

Primitives == {Square, Rectangle, OpenTriangle, TwoPoints, Collinear,
               RoundPillar, PointCircle, AxisLine, InsertOf("B")}

ResolverDocuments ==
    {[modelspace |-> <<>>, blocks |-> [n \in {"A"} |-> body]] :
        body \in SeqsOf(Primitives, 0, MaxPrims)}

InitResolver ==
    /\ doc \in ResolverDocuments
    /\ max_depth = 0
    /\ status = "resolver"
    /\ entities = <<>>
    /\ ms_idx = 1
    /\ stack = <<>>
    /\ result = <<>>
    /\ block_geometry_cache = NoCache
    /\ warnings = [depth |-> 0, missing |-> 0]
    /\ scans = NoCount
    /\ resolves = NoCount
    /\ resolved = [n \in BlockNames |-> {}]
    /\ geo_in = NoGeoCall
    /\ geo_out = <<>>
    /\ NoClassifier

(* geometry = self._extract_block_geometry(block), for the block "A" *)
Resolve ==
    /\ status = "resolver"
    /\ resolves["A"] < MaxResolves
    /\ LET r == _extract_block_geometry("A", doc.blocks["A"], block_geometry_cache)
       IN  /\ block_geometry_cache' = r.cache
           /\ scans' = [scans EXCEPT !["A"] = IF r.scanned THEN @ + 1 ELSE @]
           /\ resolves' = [resolves EXCEPT !["A"] = @ + 1]
           /\ resolved' = [resolved EXCEPT !["A"] = @ \cup {r.geometry}]
    /\ UNCHANGED <<doc, max_depth, status, entities, ms_idx, stack, result, warnings>>
    /\ UNCHANGED geo_vars
    /\ UNCHANGED classifier_vars

NextResolver == Resolve

SpecResolver == InitResolver /\ [][NextResolver]_vars

(***************************************************************************)
(* The GeometryProcessor functions on their own                            *)
(***************************************************************************)
Coordinates == {-5, 0, 5}

Points == Coordinates \X Coordinates

InsertPoints == {<<0, 0>>, <<100, 100>>}

Rotations == {0, 90, 180, 270}

Scales == {<<1, 1>>, <<2, 1>>, <<1, -3>>}

InitGeometry ==
    /\ doc = [modelspace |-> <<>>, blocks |-> [n \in {"A"} |-> <<>>]]
    /\ max_depth = 0
    /\ status = "geometry"
    /\ entities = <<>>
    /\ ms_idx = 1
    /\ stack = <<>>
    /\ result = <<>>
    /\ block_geometry_cache = NoCache
    /\ warnings = [depth |-> 0, missing |-> 0]
    /\ scans = NoCount
    /\ resolves = NoCount
    /\ resolved = [n \in BlockNames |-> {}]
    /\ geo_in \in {[NoGeoCall EXCEPT !.vertices = v] : v \in SeqsOf(Points, 0, MaxVerts)}
    /\ geo_out = <<>>
    /\ NoClassifier

(* GeometryProcessor.calculate_area(vertices) *)
CallCalculateArea ==
    /\ status = "geometry" /\ geo_in.fn = "none"
    /\ geo_in' = [geo_in EXCEPT !.fn = "calculate_area"]
    /\ geo_out' = calculate_area(geo_in.vertices)
    /\ UNCHANGED extractor_vars
    /\ UNCHANGED classifier_vars

(* GeometryProcessor.transform_vertices(vertices, insert_point, rotation,  *)
(* scale_x, scale_y)                                                       *)
CallTransformVertices ==
    /\ status = "geometry" /\ geo_in.fn = "none"
    /\ \E ip \in InsertPoints, rot \in Rotations, sc \in Scales :
          /\ geo_in' = [geo_in EXCEPT !.fn = "transform_vertices",
                                      !.insert_point = ip, !.rotation = rot,
                                      !.scale_x = sc[1], !.scale_y = sc[2]]
          /\ geo_out' = transform_vertices(geo_in.vertices, ip, rot, sc[1], sc[2])
    /\ UNCHANGED extractor_vars
    /\ UNCHANGED classifier_vars

NextGeometry ==
    \/ CallCalculateArea
    \/ CallTransformVertices

SpecGeometry == InitGeometry /\ [][NextGeometry]_vars

(***************************************************************************)
(* Numbers of the classifiers.  Scores and base confidences are in         *)
(* hundredths (ScoreUnit parts per unit); a final confidence is the        *)
(* product of three of them, in units of 1 / ConfidenceUnit.  The bounds   *)
(* of an area range are rationals, an area of a context a whole number.    *)
(***************************************************************************)
ScoreUnit == 100

ConfidenceUnit == ScoreUnit * ScoreUnit * ScoreUnit

Rat(num, den) == [num |-> num, den |-> den]

(* An Optional value that is no list: None, or a value *)
NoValue == [is_none |-> TRUE, value |-> <<>>]

Value(v) == [is_none |-> FALSE, value |-> v]

(* {}: the dict without keys *)
EmptyDict == [key \in {} |-> key]

(* {**d, key: v} *)
dict_with(d, key, v) ==
    [k \in DOMAIN d \cup {key} |-> IF k = key THEN v ELSE d[k]]

(***************************************************************************)
(* re.compile(keyword, re.IGNORECASE).search(string)                       *)
(* A string is a sequence of characters.  A pattern is a sequence of       *)
(* atoms: a character, any character or a digit, each repeated lo..hi      *)
(* times (hi = -1: without limit), or an anchor.  A character outside      *)
(* ASCII is written by its code point, "uC77C" for U+C77C.                 *)
(***************************************************************************)
(* str.lower() of one character *)
lower(c) ==
    LET UpperCase == <<"A", "B", "C", "D", "E", "F", "G", "H", "I", "J", "K", "L", "M",
                       "N", "O", "P", "Q", "R", "S", "T", "U", "V", "W", "X", "Y", "Z">>
        LowerCase == <<"a", "b", "c", "d", "e", "f", "g", "h", "i", "j", "k", "l", "m",
                       "n", "o", "p", "q", "r", "s", "t", "u", "v", "w", "x", "y", "z">>
    IN  IF \E i \in 1..Len(UpperCase) : UpperCase[i] = c
            THEN LowerCase[CHOOSE i \in 1..Len(UpperCase) : UpperCase[i] = c]
            ELSE c

(* An atom of a kind: "char" (the character ch), "any" (.), "digit" (\d),   *)
(* "bol" (^), "eol" ($); once, or repeated lo..hi times                     *)
Atom(kind, ch) == [kind |-> kind, ch |-> ch, lo |-> 1, hi |-> 1]

Rep(atom, lo, hi) == [kind |-> atom.kind, ch |-> atom.ch, lo |-> lo, hi |-> hi]

(* A run of literal characters *)
Lit(chars) == [i \in 1..Len(chars) |-> Atom("char", chars[i])]

(* The atom matches the character c, letters compared without case *)
atom_matches(atom, c) ==
    IF atom.kind = "char" THEN lower(c) = lower(atom.ch)
    ELSE IF atom.kind = "digit"
        THEN c \in {"0", "1", "2", "3", "4", "5", "6", "7", "8", "9"}
    ELSE atom.kind = "any" /\ c # "\n"

(* The atoms from the k-th on match the string from position i on *)
RECURSIVE match_here(_, _, _, _)
match_here(pattern, k, string, i) ==
    IF k > Len(pattern) THEN TRUE
    ELSE LET atom == pattern[k]
         IN  IF atom.kind = "bol" THEN i = 1 /\ match_here(pattern, k + 1, string, i)
             ELSE IF atom.kind = "eol"
                THEN i = Len(string) + 1 /\ match_here(pattern, k + 1, string, i)
             ELSE LET left == Len(string) - i + 1
                      most == IF atom.hi = -1 \/ atom.hi > left THEN left ELSE atom.hi
                  IN  \E n \in atom.lo..most :
                          /\ \A j \in 0..(n - 1) : atom_matches(atom, string[i + j])
                          /\ match_here(pattern, k + 1, string, i + n)

(* pattern.search(string): the pattern matches somewhere in the string *)
search(pattern, string) ==
    \E i \in 1..(Len(string) + 1) : match_here(pattern, 1, string, i)

(* string.split(sep): the parts between the occurrences of the character   *)
(* sep, from position i on, the part begun being `part`                    *)
RECURSIVE split_from(_, _, _, _)
split_from(string, sep, i, part) ==
    IF i > Len(string) THEN <<part>>
    ELSE IF string[i] = sep THEN <<part>> \o split_from(string, sep, i + 1, <<>>)
    ELSE split_from(string, sep, i + 1, Append(part, string[i]))

split(string, sep) == split_from(string, sep, 1, <<>>)

(***************************************************************************)
(* RuleBasedClassifier._build_rules                                        *)
(***************************************************************************)
_build_rules ==
    <<
      (* rule 1: lines 47-55 *)
      [category |-> "circulation", type |-> "exit", confidence |-> 95,
       area_range |-> <<Rat(1, 1), Rat(100000000, 1)>>,
       keywords |-> <<
          Lit(<<"F", "S", "D">>),
          Lit(<<"F", "S", "D", "-">>) \o <<Rep(Atom("digit", ""), 1, -1)>>,
          Lit(<<"F", "I", "R", "E">>) \o <<Rep(Atom("any", ""), 0, 1)>> \o Lit(<<"S", "A", "F", "E", "T", "Y">>),
          Lit(<<"uC18C", "uBC29">>),
          Lit(<<"uBC29", "uD654">>),
          Lit(<<"uBE44", "uC0C1">>) >>],
      (* rule 2: lines 58-67 *)
      [category |-> "circulation", type |-> "stairs", confidence |-> 98,
       area_range |-> <<Rat(5, 1), Rat(100000000, 1)>>,
       keywords |-> <<
          Lit(<<"uACC4", "uB2E8">>),
          Lit(<<"S", "T", "A", "I", "R">>),
          Lit(<<"S", "T", "E", "P">>),
          Lit(<<"S", "T", "A">>),
          Lit(<<"c", "o", "r", "e">>) \o <<Rep(Atom("any", ""), 0, -1)>> \o Lit(<<"uACC4", "uB2E8">>),
          Lit(<<"uCE35", "uACC4">>),
          Lit(<<"B">>) \o <<Rep(Atom("digit", ""), 1, -1)>> \o Lit(<<"F", "uACC4", "uB2E8">>),
          Lit(<<"S", "T", "A", "_">>) >>],
      (* rule 3: lines 71-81 *)
      [category |-> "parking", type |-> "disabled", confidence |-> 95,
       area_range |-> <<Rat(15000000, 1), Rat(20000000, 1)>>,
       keywords |-> <<
          Lit(<<"uC7A5", "uC560", "uC778">>),
          Lit(<<"D", "I", "S", "A", "B", "L", "E", "D">>),
          Lit(<<"H", "A", "N", "D", "I", "C", "A", "P">>),
          Lit(<<"H", "A", "N", "D", "I", "C", "A", "P", "P", "E", "D">>),
          Lit(<<"uBC30", "uB9AC", "uC5B4", "uD504", "uB9AC">>),
          Lit(<<"B", "A", "R", "R", "I", "E", "R">>) \o <<Rep(Atom("any", ""), 0, 1)>> \o Lit(<<"F", "R", "E", "E">>),
          Lit(<<"A", "C", "C", "E", "S", "S", "I", "B", "L", "E">>),
          Lit(<<"uC7A5", "uC560">>),
          Lit(<<"D", "I", "S", "A", "B", "L", "E">>) >>],
      (* rule 4: lines 82-92 *)
      [category |-> "parking", type |-> "electric", confidence |-> 95,
       area_range |-> <<Rat(10000000, 1), Rat(15000000, 1)>>,
       keywords |-> <<
          Lit(<<"uC804", "uAE30", "uCC28">>),
          Lit(<<"E", "L", "E", "C", "T", "R", "I", "C">>),
          Lit(<<"E", "V">>),
          Lit(<<"E">>) \o <<Rep(Atom("any", ""), 0, 1)>> \o Lit(<<"V">>),
          Lit(<<"uD658", "uACBD", "uCE5C", "uD654">>),
          Lit(<<"E", "C", "O">>),
          Lit(<<"C", "H", "A", "R", "G", "E">>),
          Lit(<<"uCDA9", "uC804">>),
          Lit(<<"P", "A", "R", "K">>) \o <<Rep(Atom("any", ""), 0, 1)>> \o Lit(<<"E", "C">>),
          Lit(<<"E", "C">>) \o <<Rep(Atom("any", ""), 0, 1)>> \o Lit(<<"P", "A", "R", "K">>) >>],
      (* rule 5: lines 93-103 *)
      [category |-> "parking", type |-> "women", confidence |-> 95,
       area_range |-> <<Rat(10000000, 1), Rat(15000000, 1)>>,
       keywords |-> <<
          Lit(<<"uC5EC", "uC131">>),
          Lit(<<"W", "O", "M", "E", "N">>),
          Lit(<<"W", "O", "M", "A", "N">>),
          Lit(<<"F", "E", "M", "A", "L", "E">>),
          Lit(<<"uAC00", "uC871">>),
          Lit(<<"F", "A", "M", "I", "L", "Y">>),
          Lit(<<"uBC30", "uB824">>),
          Lit(<<"uAD50", "uD1B5", "uC57D", "uC790">>),
          Lit(<<"P", "R", "I", "O", "R", "I", "T", "Y">>) >>],
      (* rule 6: lines 104-113 *)
      [category |-> "parking", type |-> "compact", confidence |-> 95,
       area_range |-> <<Rat(7000000, 1), Rat(10000000, 1)>>,
       keywords |-> <<
          Lit(<<"uACBD", "uCC28">>),
          Lit(<<"C", "O", "M", "P", "A", "C", "T">>),
          Lit(<<"S", "M", "A", "L", "L">>),
          Lit(<<"M", "I", "N", "I">>),
          Lit(<<"uC18C", "uD615">>),
          Lit(<<"L", "I", "G", "H", "T">>) >>],
      (* rule 7: lines 114-123 *)
      [category |-> "parking", type |-> "large", confidence |-> 90,
       area_range |-> <<Rat(13000000, 1), Rat(18000000, 1)>>,
       keywords |-> <<
          Lit(<<"uD655", "uC7A5">>),
          Lit(<<"L", "A", "R", "G", "E">>),
          Lit(<<"E", "X", "T", "E", "N", "D", "E", "D">>),
          Lit(<<"E", "X", "P", "A", "N", "D">>),
          Lit(<<"S", "U", "V">>),
          Lit(<<"uB300", "uD615">>),
          Lit(<<"B", "I", "G">>) >>],
      (* rule 8: lines 124-134 *)
      [category |-> "parking", type |-> "basic", confidence |-> 90,
       area_range |-> <<Rat(10000000, 1), Rat(15000000, 1)>>,
       keywords |-> <<
          Lit(<<"uC77C", "uBC18">>),
          Lit(<<"N", "O", "R", "M", "A", "L">>),
          Lit(<<"S", "T", "A", "N", "D", "A", "R", "D">>),
          Lit(<<"R", "E", "G", "U", "L", "A", "R">>),
          Lit(<<"B", "A", "S", "I", "C">>),
          Lit(<<"S", "T", "D">>),
          Lit(<<"P", "A", "R", "K">>),
          Lit(<<"uC8FC", "uCC28">>),
          Lit(<<"P", "A", "R", "K", "I", "N", "G">>),
          Lit(<<"C", "A", "R">>) \o <<Rep(Atom("any", ""), 0, 1)>> \o Lit(<<"S", "P", "A", "C", "E">>) >>],
      (* rule 9: lines 137-149 *)
      [category |-> "structure", type |-> "column", confidence |-> 95,
       area_range |-> <<Rat(100000, 1), Rat(1000000000, 1)>>, vertex_range |-> <<4, 100>>,
       keywords |-> <<
          Lit(<<"uAE30", "uB465">>),
          Lit(<<"C", "O", "L", "U", "M", "N">>),
          Lit(<<"C", "O", "L">>),
          Lit(<<"P", "I", "L", "L", "A", "R">>),
          Lit(<<"P", "O", "S", "T">>),
          Lit(<<"C">>) \o <<Rep(Atom("digit", ""), 1, -1)>>,
          <<Atom("bol", "")>> \o Lit(<<"C", "-">>),
          Lit(<<"P", "I", "E", "R">>),
          <<Rep(Atom("digit", ""), 1, -1)>> \o Lit(<<"x">>) \o <<Rep(Atom("digit", ""), 1, -1)>>,
          <<Atom("bol", "")>> \o <<Rep(Atom("digit", ""), 3, 4)>> \o <<Atom("eol", "")>> >>],
      (* rule 10: lines 150-160 *)
      [category |-> "structure", type |-> "wall", confidence |-> 95,
       area_range |-> <<Rat(1, 10), Rat(100, 1)>>,
       keywords |-> <<
          Lit(<<"uBCBD">>),
          Lit(<<"W", "A", "L", "L">>),
          Lit(<<"P", "A", "R", "T", "I", "T", "I", "O", "N">>),
          Lit(<<"B", "A", "R", "R", "I", "E", "R">>),
          Lit(<<"uC678", "uBCBD">>),
          Lit(<<"E", "X", "T", "E", "R", "I", "O", "R">>),
          Lit(<<"uB0B4", "uBCBD">>),
          Lit(<<"I", "N", "T", "E", "R", "I", "O", "R">>),
          Lit(<<"F", "E", "N", "C", "E">>),
          Lit(<<"uCE78", "uB9C9", "uC774">>) >>],
      (* rule 11: lines 161-170 *)
      [category |-> "structure", type |-> "beam", confidence |-> 90,
       area_range |-> <<Rat(1, 2), Rat(10, 1)>>,
       keywords |-> <<
          Lit(<<"uBCF4">>),
          Lit(<<"B", "E", "A", "M">>),
          Lit(<<"G", "I", "R", "D", "E", "R">>),
          Lit(<<"J", "O", "I", "S", "T">>),
          Lit(<<"B">>) \o <<Rep(Atom("digit", ""), 1, -1)>>,
          <<Atom("bol", "")>> \o Lit(<<"B", "-">>) >>],
      (* rule 12: lines 173-184 *)
      [category |-> "circulation", type |-> "entrance", confidence |-> 95,
       area_range |-> <<Rat(10000, 1), Rat(50000000, 1)>>,
       keywords |-> <<
          Lit(<<"uCD9C", "uC785", "uAD6C">>),
          Lit(<<"E", "N", "T", "R", "A", "N", "C", "E">>),
          Lit(<<"E", "N", "T", "R", "Y">>),
          Lit(<<"A", "C", "C", "E", "S", "S">>),
          Lit(<<"G", "A", "T", "E">>),
          Lit(<<"uC785", "uAD6C">>),
          Lit(<<"uAC8C", "uC774", "uD2B8">>),
          Lit(<<"I", "N">>),
          Lit(<<"I", "N", "G", "R", "E", "S", "S">>),
          Lit(<<"uC790", "uB3D9", "uBB38">>),
          Lit(<<"A", "U", "T", "O">>) \o <<Rep(Atom("any", ""), 0, 1)>> \o Lit(<<"D", "O", "O", "R">>),
          Lit(<<"uC811", "uC774", "uBB38">>),
          Lit(<<"F", "O", "L", "D", "I", "N", "G">>),
          Lit(<<"uC2AC", "uB77C", "uC774", "uB529">>),
          Lit(<<"S", "L", "I", "D", "I", "N", "G">>) >>],
      (* rule 13: lines 185-195 *)
      [category |-> "circulation", type |-> "exit", confidence |-> 95,
       area_range |-> <<Rat(10000, 1), Rat(50000000, 1)>>,
       keywords |-> <<
          Lit(<<"uCD9C", "uAD6C">>),
          Lit(<<"E", "X", "I", "T">>),
          Lit(<<"E", "G", "R", "E", "S", "S">>),
          Lit(<<"O", "U", "T">>),
          Lit(<<"uBE44", "uC0C1", "uAD6C">>),
          Lit(<<"E", "M", "E", "R", "G", "E", "N", "C", "Y">>),
          Lit(<<"E", "S", "C", "A", "P", "E">>),
          Lit(<<"S", "S", "D">>),
          Lit(<<"S", "F", "D">>) >>],
      (* rule 14: lines 196-205 *)
      [category |-> "circulation", type |-> "ramp", confidence |-> 95,
       area_range |-> <<Rat(10, 1), Rat(100, 1)>>,
       keywords |-> <<
          Lit(<<"uACBD", "uC0AC", "uB85C">>),
          Lit(<<"R", "A", "M", "P">>),
          Lit(<<"S", "L", "O", "P", "E">>),
          Lit(<<"I", "N", "C", "L", "I", "N", "E">>),
          Lit(<<"G", "R", "A", "D", "I", "E", "N", "T">>),
          Lit(<<"uB7A8", "uD504">>) >>],
      (* rule 15: lines 206-215 *)
      [category |-> "circulation", type |-> "stairs", confidence |-> 95,
       area_range |-> <<Rat(5, 1), Rat(30, 1)>>,
       keywords |-> <<
          Lit(<<"uACC4", "uB2E8">>),
          Lit(<<"S", "T", "A", "I", "R", "S">>),
          Lit(<<"S", "T", "A", "I", "R">>),
          Lit(<<"S", "T", "E", "P">>),
          Lit(<<"S", "T", "A", "I", "R", "W", "A", "Y">>),
          Lit(<<"S", "T", "A", "I", "R", "C", "A", "S", "E">>) >>],
      (* rule 16: lines 216-225 *)
      [category |-> "circulation", type |-> "elevator", confidence |-> 95,
       area_range |-> <<Rat(3, 1), Rat(10, 1)>>,
       keywords |-> <<
          Lit(<<"uC5D8", "uB9AC", "uBCA0", "uC774", "uD130">>),
          Lit(<<"E", "L", "E", "V", "A", "T", "O", "R">>),
          Lit(<<"L", "I", "F", "T">>),
          Lit(<<"E", "V">>),
          Lit(<<"uC2B9", "uAC15", "uAE30">>),
          Lit(<<"H", "O", "I", "S", "T">>),
          Lit(<<"E">>) \o <<Rep(Atom("any", ""), 0, 1)>> \o Lit(<<"L">>) >>],
      (* rule 17: lines 228-239 *)
      [category |-> "facility", type |-> "restroom", confidence |-> 95,
       area_range |-> <<Rat(1000, 1), Rat(50000000, 1)>>,
       keywords |-> <<
          Lit(<<"uD654", "uC7A5", "uC2E4">>),
          Lit(<<"R", "E", "S", "T", "R", "O", "O", "M">>),
          Lit(<<"T", "O", "I", "L", "E", "T">>),
          Lit(<<"W", "C">>),
          Lit(<<"uBCC0", "uAE30">>),
          Lit(<<"uC138", "uBA74", "uB300">>),
          Lit(<<"S", "I", "N", "K">>),
          Lit(<<"uC18C", "uBCC0", "uAE30">>),
          Lit(<<"U", "R", "I", "N">>),
          Lit(<<"uC0E4", "uC6CC">>),
          Lit(<<"S", "H", "O", "W", "E", "R">>),
          Lit(<<"uC695", "uC2E4">>),
          Lit(<<"W", "A", "S", "H">>),
          Lit(<<"B", "A", "S", "I", "N">>),
          Lit(<<"L", "A", "V", "A", "T", "O", "R", "Y">>) >>],
      (* rule 18: lines 240-249 *)
      [category |-> "facility", type |-> "storage", confidence |-> 90,
       area_range |-> <<Rat(100000, 1), Rat(20000000, 1)>>,
       keywords |-> <<
          Lit(<<"uC2E0", "uBC1C", "uC7A5">>),
          Lit(<<"L", "O", "C", "K", "E", "R">>),
          Lit(<<"C", "A", "B", "I", "N", "E", "T">>),
          Lit(<<"S", "H", "O", "E">>),
          Lit(<<"uC218", "uB0A9">>),
          Lit(<<"S", "T", "O", "R", "A", "G", "E">>),
          Lit(<<"uBCF4", "uAD00">>),
          Lit(<<"uCC3D", "uACE0">>) >>],
      (* rule 19: lines 250-260 *)
      [category |-> "facility", type |-> "mechanical", confidence |-> 90,
       area_range |-> <<Rat(1000000, 1), Rat(50000000, 1)>>,
       keywords |-> <<
          Lit(<<"uAE30", "uACC4", "uC2E4">>),
          Lit(<<"M", "E", "C", "H", "A", "N", "I", "C", "A", "L">>),
          Lit(<<"M", "A", "C", "H", "I", "N", "E">>),
          Lit(<<"M", "E", "C", "H">>),
          Lit(<<"uC124", "uBE44", "uC2E4">>),
          Lit(<<"E", "Q", "U", "I", "P", "M", "E", "N", "T">>),
          Lit(<<"U", "T", "I", "L", "I", "T", "Y">>),
          Lit(<<"M", "/", "R">>),
          Lit(<<"M", "R">>),
          Lit(<<"uC81C", "uC5F0">>) >>],
      (* rule 20: lines 261-270 *)
      [category |-> "facility", type |-> "electrical", confidence |-> 90,
       area_range |-> <<Rat(1000000, 1), Rat(50000000, 1)>>,
       keywords |-> <<
          Lit(<<"uC804", "uAE30", "uC2E4">>),
          Lit(<<"E", "L", "E", "C", "T", "R", "I", "C", "A", "L">>),
          Lit(<<"E", "L", "E", "C", "T", "R", "I", "C">>),
          Lit(<<"E", "L", "E", "C">>),
          Lit(<<"P", "O", "W", "E", "R">>),
          Lit(<<"E", "/", "R">>),
          Lit(<<"E", "R">>),
          Lit(<<"uBC30", "uC804">>) >>],
      (* rule 21: lines 271-280 *)
      [category |-> "facility", type |-> "recreation", confidence |-> 85,
       area_range |-> <<Rat(5000000, 1), Rat(100000000, 1)>>,
       keywords |-> <<
          Lit(<<"uACE8", "uD504">>),
          Lit(<<"G", "O", "L", "F">>),
          Lit(<<"uC6B4", "uB3D9">>),
          Lit(<<"G", "Y", "M">>),
          Lit(<<"F", "I", "T", "N", "E", "S", "S">>),
          Lit(<<"uD734", "uAC8C">>),
          Lit(<<"uB808", "uC800">>),
          Lit(<<"R", "E", "C", "R", "E", "A", "T", "I", "O", "N">>) >>],
      (* rule 22: lines 281-290 *)
      [category |-> "facility", type |-> "room", confidence |-> 70,
       area_range |-> <<Rat(100000, 1), Rat(100000000, 1)>>,
       keywords |-> <<
          Lit(<<"uC2E4">>),
          Lit(<<"R", "O", "O", "M">>),
          Lit(<<"S", "P", "A", "C", "E">>),
          Lit(<<"A", "R", "E", "A">>),
          Lit(<<"Z", "O", "N", "E">>),
          Lit(<<"R", "M">>),
          Lit(<<"B">>) \o <<Rep(Atom("digit", ""), 3, 3)>>,
          Lit(<<"B", "-">>) \o <<Rep(Atom("digit", ""), 3, 3)>> >>]
    >>

(***************************************************************************)
(* RuleBasedClassifier._match_keywords and _match_geometry                 *)
(***************************************************************************)
(* Lines 402-417, mutated: the loop returns after the first keyword *)
_match_keywords_first(block_name, keywords) ==
    LET block_parts == split(block_name, "$")
    IN  IF /\ Len(keywords) > 0
           /\ \/ search(keywords[1], block_name)
              \/ \E p \in 1..Len(block_parts) : search(keywords[1], block_parts[p])
            THEN ScoreUnit
            ELSE 0

(* Lines 402-417: 1.0 if a keyword is found in the block name or in one of *)
(* its parts between "$", else 0.0                                         *)
_match_keywords(block_name, keywords) ==
    LET block_parts == split(block_name, "$")
    IN  IF \E k \in 1..Len(keywords) :
              \/ search(keywords[k], block_name)
              \/ \E p \in 1..Len(block_parts) : search(keywords[k], block_parts[p])
            THEN ScoreUnit
            ELSE 0

(* context.get(key) is true: the key is there and its value is not 0 *)
has_value(context, key) == key \in DOMAIN context /\ context[key] # 0

(* Lines 437-442: the factor of an area against (min_area, max_area) *)
area_factor(area, area_range) ==
    LET min_area == area_range[1]
        max_area == area_range[2]
    IN  IF min_area.num <= area * min_area.den /\ area * max_area.den <= max_area.num
            THEN ScoreUnit
        ELSE IF \/ 2 * area * min_area.den < min_area.num
                \/ area * max_area.den > 2 * max_area.num
            THEN 30
        ELSE 70

(* Lines 449-452, mutated: a vertex count out of the range costs as little *)
(* as an area just out of its range                                        *)
vertex_factor_mild(vertex_count, vertex_range) ==
    IF vertex_range[1] <= vertex_count /\ vertex_count <= vertex_range[2]
        THEN ScoreUnit
        ELSE 70

(* Lines 449-452: the factor of a vertex count against (min_v, max_v) *)
vertex_factor(vertex_count, vertex_range) ==
    IF vertex_range[1] <= vertex_count /\ vertex_count <= vertex_range[2]
        THEN ScoreUnit
        ELSE 50

(* score *= factor, mutated: the factor replaces the score *)
times_assigned(score, factor) == factor

(* score *= factor *)
times(score, factor) == (score * factor) \div ScoreUnit

(* Lines 430-454 *)
_match_geometry(context, rule) ==
    LET score   == ScoreUnit
        score_a == IF "area_range" \in DOMAIN rule /\ has_value(context, "area")
                      THEN times(score, area_factor(context["area"], rule.area_range))
                      ELSE score
        score_v == IF "vertex_range" \in DOMAIN rule /\ has_value(context, "vertex_count")
                      THEN times(score_a, vertex_factor(context["vertex_count"],
                                                        rule.vertex_range))
                      ELSE score_a
    IN  score_v

(***************************************************************************)
(* Classification and RuleBasedClassifier._classify_by_rules               *)
(***************************************************************************)
Classification(category, type, confidence, reasoning, method) ==
    [category |-> category, type |-> type, confidence |-> confidence,
     reasoning |-> reasoning, method |-> method]

(* Line 359, mutated: an equal score replaces the incumbent too *)
confidence_replaces_or_ties(final_confidence, best_confidence) ==
    final_confidence >= best_confidence

(* Line 359: if final_confidence > best_confidence *)
confidence_replaces(final_confidence, best_confidence) ==
    final_confidence > best_confidence

(* Lines 348-372: the loop over self.rules from the i-th rule on; the      *)
(* result is best_match and best_confidence.  The reasoning (362-364)      *)
(* cites the keyword score, and the geometry score if it is below 1.0      *)
RECURSIVE scan_rules(_, _, _, _, _, _)
scan_rules(rules, block_name, context, i, best_match, best_confidence) ==
    IF i > Len(rules)
        THEN [best_match |-> best_match, best_confidence |-> best_confidence]
    ELSE LET rule        == rules[i]
             match_score == _match_keywords(block_name, rule.keywords)
         IN  IF match_score > 0
                THEN LET geo_score        == _match_geometry(context, rule)
                         final_confidence == rule.confidence * match_score * geo_score
                         reasoning        ==
                             <<"keyword match", match_score>>
                                \o (IF geo_score < ScoreUnit
                                        THEN <<"geometry check", geo_score>> ELSE <<>>)
                     IN  IF confidence_replaces(final_confidence, best_confidence)
                            THEN scan_rules(rules, block_name, context, i + 1,
                                    Value(Classification(rule.category, rule.type,
                                        final_confidence, reasoning,
                                        "rule-based")),
                                    final_confidence)
                            ELSE scan_rules(rules, block_name, context, i + 1,
                                            best_match, best_confidence)
                ELSE scan_rules(rules, block_name, context, i + 1,
                                best_match, best_confidence)

(* Line 375, mutated: any match is accepted *)
accepted_any(best_match, best_confidence) == ~best_match.is_none

(* Line 375: if best_match and best_confidence > 0.5 *)
accepted(best_match, best_confidence) ==
    ~best_match.is_none /\ 2 * best_confidence > ConfidenceUnit

(* Lines 381-387: the classification of a block no rule is accepted for *)
Unclassified ==
    Classification("other", "unclassified", 3 * (ConfidenceUnit \div 10),
                   <<"no rule matched">>, "rule-based")

(* Lines 344-387: the classification returned, and whether a rule was      *)
(* accepted (rule_matches is counted) or not (unclassified is counted)     *)
_classify_by_rules(block_name, context) ==
    LET best == scan_rules(_build_rules, block_name, context, 1, NoValue, 0)
    IN  IF accepted(best.best_match, best.best_confidence)
            THEN [result |-> best.best_match.value, rule_match |-> TRUE]
            ELSE [result |-> Unclassified, rule_match |-> FALSE]

(***************************************************************************)
(* CacheManager                                                            *)
(***************************************************************************)
(* Lines 59-70, mutated: the new fields are merged into the old entry *)
CacheManager_set_merged(entries, block_name, classification, now) ==
    [n \in DOMAIN entries \cup {block_name} |->
        IF n = block_name
            THEN LET old == IF n \in DOMAIN entries THEN entries[n] ELSE EmptyDict
                 IN  [k \in DOMAIN old \cup DOMAIN classification \cup {"cached_at"} |->
                        IF k = "cached_at" THEN now
                        ELSE IF k \in DOMAIN classification THEN classification[k]
                        ELSE old[k]]
            ELSE entries[n]]

(* Lines 59-70: self.cache[block_name] = {**classification, 'cached_at': now} *)
CacheManager_set(entries, block_name, classification, now) ==
    [n \in DOMAIN entries \cup {block_name} |->
        IF n = block_name THEN dict_with(classification, "cached_at", now)
        ELSE entries[n]]

(* Line 57, mutated: an entry of the category other is not given out *)
CacheManager_get_classified(entries, block_name) ==
    IF block_name \in DOMAIN entries /\ entries[block_name]["category"] # "other"
        THEN Value(entries[block_name])
        ELSE NoValue

(* Line 57: self.cache.get(block_name) *)
CacheManager_get(entries, block_name) ==
    IF block_name \in DOMAIN entries THEN Value(entries[block_name]) ELSE NoValue

(* Lines 74-76: self.cache = {} *)
CacheManager_clear(entries) == EmptyDict

(* CacheManager(cache_file): an object whose dict is what _load_cache read *)
CacheManager(entries) == [is_none |-> FALSE, cache |-> entries]

(* self.cache = None *)
NoCacheManager == [is_none |-> TRUE, cache |-> EmptyDict]

(***************************************************************************)
(* A RuleBasedClassifier and the calls of its method classify              *)
(***************************************************************************)
MaxCalls == 3

(* Block names: "EV" is a keyword of two rules; the second is the name of  *)
(* a parking block; the third has the parts of a path; the fourth has a    *)
(* part that only matches an anchored keyword, in lower case; "ROOM" is a  *)
(* keyword of the last rule; no rule has a keyword for "XYZ"               *)
Names ==
    [EV     |-> <<"E", "V">>,
     PARK   |-> <<"P", "A", "R", "K", "_", "uC77C", "uBC18">>,
     FSD    |-> <<"uC9C0", "uD558", "1", "uCE35", "$", "0", "$",
                  "F", "S", "D", "-", "1", "1", "0", "0">>,
     column |-> <<"x", "$", "c", "-", "1", "2">>,
     ROOM   |-> <<"R", "O", "O", "M">>,
     XYZ    |-> <<"X", "Y", "Z">>]

ClassifiedNames == {Names[n] : n \in DOMAIN Names}

(* context: None (taken as {}), or a dict with an area and a vertex count *)
Context(area, vertex_count) == [area |-> area, vertex_count |-> vertex_count]

Contexts == {EmptyDict, Context(12000000, 4), Context(5, 3)}

(* What _load_cache can find in the cache file: nothing, or entries that   *)
(* an earlier run of a classifier saved there                              *)
LoadedCaches ==
    {EmptyDict,
     [n \in {Names.EV} |->
        [category |-> "circulation", type |-> "elevator",
         confidence |-> 9 * (ConfidenceUnit \div 10), reasoning |-> <<"saved">>,
         cached_at |-> 0]]}

(* _classify_by_rules and _match_keywords are functions of their arguments  *)
(* alone: their values for the names and contexts above, computed once     *)
rule_results ==
    [block_name \in ClassifiedNames |->
        [context \in Contexts |-> _classify_by_rules(block_name, context)]]

keyword_scores ==
    [block_name \in ClassifiedNames |->
        [i \in 1..Len(_build_rules) |->
            _match_keywords(block_name, _build_rules[i].keywords)]]

(* RuleBasedClassifier(enable_cache): lines 20-41 *)
InitClassifier ==
    /\ doc = [modelspace |-> <<>>, blocks |-> [n \in {"A"} |-> <<>>]]
    /\ max_depth = 0
    /\ status = "classifier"
    /\ entities = <<>>
    /\ ms_idx = 1
    /\ stack = <<>>
    /\ result = <<>>
    /\ block_geometry_cache = NoCache
    /\ warnings = [depth |-> 0, missing |-> 0]
    /\ scans = NoCount
    /\ resolves = NoCount
    /\ resolved = [n \in BlockNames |-> {}]
    /\ geo_in = NoGeoCall
    /\ geo_out = <<>>
    /\ classifier = "rule-based"
    /\ enable_cache \in BOOLEAN
    /\ cache_manager \in IF enable_cache
                            THEN {CacheManager(c) : c \in LoadedCaches}
                            ELSE {NoCacheManager}
    /\ stats = [total_requests |-> 0, cache_hits |-> 0, rule_matches |-> 0,
                geometry_matches |-> 0, unclassified |-> 0]
    /\ clock = 1
    /\ calls = <<>>

(* Lines 311 and 327: if self.enable_cache and self.cache *)
cache_in_use == enable_cache /\ ~cache_manager.is_none

(* Line 313, mutated: the entry found is never used *)
cached_found_never(cached) == FALSE

(* Line 313: if cached (an entry that is no empty dict) *)
cached_found(cached) == ~cached.is_none /\ DOMAIN cached.value # {}

(* Lines 311-313: the cache is in use and has an entry for the name *)
cache_hit(block_name) ==
    /\ cache_in_use
    /\ cached_found(CacheManager_get(cache_manager.cache, block_name))

(* Lines 327-333, mutated: the fallback classification is not stored *)
store_result_if_matched(manager, block_name, classification, now) ==
    IF cache_in_use /\ classification.category # "other"
        THEN CacheManager(CacheManager_set(manager.cache, block_name,
                [category |-> classification.category, type |-> classification.type,
                 confidence |-> classification.confidence,
                 reasoning |-> classification.reasoning], now))
        ELSE manager

(* Lines 327-333: if the cache is in use, self.cache.set(block_name, ...) *)
store_result(manager, block_name, classification, now) ==
    IF cache_in_use
        THEN CacheManager(CacheManager_set(manager.cache, block_name,
                [category |-> classification.category, type |-> classification.type,
                 confidence |-> classification.confidence,
                 reasoning |-> classification.reasoning], now))
        ELSE manager

(* Lines 313-321, mutated: on a hit the entry is replaced by the result of *)
(* the rules for this call                                                 *)
manager_after_hit_refreshed(manager, block_name, context, now) ==
    store_result(manager, block_name, rule_results[block_name][context].result, now)

(* Lines 313-321: a hit returns at once; the cache is as it was *)
manager_after_hit(manager, block_name, context, now) == manager

(* Lines 308, 314, 376 and 381, mutated: the counter is assigned *)
increment_assigned(counters, key) == [counters EXCEPT ![key] = 1]

(* Lines 308, 314, 376 and 381: self.stats[key] += 1 *)
increment(counters, key) == [counters EXCEPT ![key] = @ + 1]

(* Lines 308-321: classify(block_name, context) with an entry in the cache *)
ClassifyCached ==
    /\ classifier = "rule-based"
    /\ Len(calls) < MaxCalls
    /\ \E block_name \in ClassifiedNames, context \in Contexts :
          /\ cache_hit(block_name)
          /\ LET cached == CacheManager_get(cache_manager.cache, block_name).value
                 returned == Classification(cached["category"], cached["type"],
                                            cached["confidence"], cached["reasoning"],
                                            "cached")
             IN  /\ stats' = increment(increment(stats, "total_requests"), "cache_hits")
                 /\ cache_manager' = manager_after_hit(cache_manager, block_name,
                                                       context, clock)
                 /\ calls' = Append(calls, [block_name |-> block_name,
                                            context |-> context,
                                            returned |-> returned])
    /\ UNCHANGED <<classifier, enable_cache, clock>>
    /\ UNCHANGED extractor_vars
    /\ UNCHANGED geo_vars

(* Lines 308-335: classify(block_name, context) without an entry in the    *)
(* cache: the rules decide, and the result is stored                       *)
ClassifyByRules ==
    /\ classifier = "rule-based"
    /\ Len(calls) < MaxCalls
    /\ \E block_name \in ClassifiedNames, context \in Contexts :
          /\ ~cache_hit(block_name)
          /\ LET r == rule_results[block_name][context]
             IN  /\ stats' = increment(increment(stats, "total_requests"),
                                      IF r.rule_match THEN "rule_matches"
                                                      ELSE "unclassified")
                 /\ cache_manager' = store_result(cache_manager, block_name,
                                                  r.result, clock)
                 /\ calls' = Append(calls, [block_name |-> block_name,
                                            context |-> context,
                                            returned |-> r.result])
    /\ clock' = clock + 1
    /\ UNCHANGED <<classifier, enable_cache>>
    /\ UNCHANGED extractor_vars
    /\ UNCHANGED geo_vars

NextClassifier ==
    \/ ClassifyCached
    \/ ClassifyByRules

SpecClassifier == InitClassifier /\ [][NextClassifier]_vars

(***************************************************************************)
(* A CacheManager and the calls of its methods get, set and clear.  calls  *)
(* is the log: first what _load_cache read, then one record per call.      *)
(***************************************************************************)
MaxOps == 5

CachedNames == {Names.EV, Names.XYZ}

(* Arguments of set: dicts of a classification, with all or some fields *)
CachedDicts ==
    {[category |-> "parking", type |-> "electric",
      confidence |-> 95 * (ConfidenceUnit \div 100), reasoning |-> <<"keyword match">>],
     [category |-> "other", type |-> "unclassified"]}

Operation(op, block_name, classification, returned) ==
    [op |-> op, block_name |-> block_name, classification |-> classification,
     returned |-> returned]

(* CacheManager(cache_file): lines 15-36 *)
InitCache ==
    /\ doc = [modelspace |-> <<>>, blocks |-> [n \in {"A"} |-> <<>>]]
    /\ max_depth = 0
    /\ status = "cache"
    /\ entities = <<>>
    /\ ms_idx = 1
    /\ stack = <<>>
    /\ result = <<>>
    /\ block_geometry_cache = NoCache
    /\ warnings = [depth |-> 0, missing |-> 0]
    /\ scans = NoCount
    /\ resolves = NoCount
    /\ resolved = [n \in BlockNames |-> {}]
    /\ geo_in = NoGeoCall
    /\ geo_out = <<>>
    /\ classifier = "none"
    /\ enable_cache = FALSE
    /\ \E entries \in LoadedCaches :
          /\ cache_manager = CacheManager(entries)
          /\ calls = <<Operation("load", <<>>, entries, NoValue)>>
    /\ stats = <<>>
    /\ clock = 1

(* Lines 47-57: get(block_name) *)
CacheGet ==
    /\ status = "cache"
    /\ Len(calls) <= MaxOps
    /\ \E block_name \in CachedNames :
          calls' = Append(calls, Operation("get", block_name, EmptyDict,
                              CacheManager_get(cache_manager.cache, block_name)))
    /\ UNCHANGED <<classifier, enable_cache, cache_manager, stats, clock>>
    /\ UNCHANGED extractor_vars
    /\ UNCHANGED geo_vars

(* Lines 59-70: set(block_name, classification) *)
CacheSet ==
    /\ status = "cache"
    /\ Len(calls) <= MaxOps
    /\ \E block_name \in CachedNames, classification \in CachedDicts :
          /\ cache_manager' = CacheManager(CacheManager_set(cache_manager.cache,
                                  block_name, classification, clock))
          /\ calls' = Append(calls, Operation("set", block_name, classification, NoValue))
    /\ clock' = clock + 1
    /\ UNCHANGED <<classifier, enable_cache, stats>>
    /\ UNCHANGED extractor_vars
    /\ UNCHANGED geo_vars

(* Lines 72-77: clear() *)
CacheClear ==
    /\ status = "cache"
    /\ Len(calls) <= MaxOps
    /\ cache_manager' = CacheManager(CacheManager_clear(cache_manager.cache))
    /\ calls' = Append(calls, Operation("clear", <<>>, EmptyDict, NoValue))
    /\ UNCHANGED <<classifier, enable_cache, stats, clock>>
    /\ UNCHANGED extractor_vars
    /\ UNCHANGED geo_vars

NextCache ==
    \/ CacheGet
    \/ CacheSet
    \/ CacheClear

SpecCache == InitCache /\ [][NextCache]_vars

(***************************************************************************)
(* The remote classifiers: LLMLayerClassifier, OllamaLayerClassifier and   *)
(* OpenAILayerClassifier.  A response is what the call of the backend      *)
(* gives: an exception of the client, or a status, a body and a text.  A   *)
(* text is JSON, JSON inside a code fence, or prose; chars is what of the  *)
(* text matters to a search for keywords.                                  *)
(***************************************************************************)
MaxRemoteCalls == 2

RemoteClassifiers == {"llm", "ollama", "openai"}

(* The value of a JSON text: an object (a dict), or a value of another type *)
Json(is_dict, fields) == [is_dict |-> is_dict, fields |-> fields]

Text(form, value, chars) == [form |-> form, value |-> value, chars |-> chars]

(* {"category": "structure", "type": "wall", "confidence": c, "reasoning": ...} *)
CompleteFields(confidence) ==
    [category |-> "structure", type |-> "wall", confidence |-> confidence,
     reasoning |-> <<"answer">>]

(* Texts: an object with all fields and a confidence of 0.9, or of 95 (for *)
(* 95 percent); an object without confidence and reasoning; a list; an     *)
(* object in a code fence; prose with and without a keyword                *)
Texts ==
    {Text("json", Json(TRUE, CompleteFields(c)), <<"w", "a", "l", "l">>) :
        c \in {9 * (ConfidenceUnit \div 10), 95 * ConfidenceUnit}}
    \cup {Text("json", Json(TRUE, [category |-> "structure", type |-> "wall"]),
               <<"w", "a", "l", "l">>),
          Text("json", Json(FALSE, EmptyDict), <<"[", "]">>),
          Text("fenced", Json(TRUE, CompleteFields(9 * (ConfidenceUnit \div 10))),
               <<"w", "a", "l", "l">>),
          Text("prose", Json(FALSE, EmptyDict), <<"a", " ", "C", "o", "l", "u", "m", "n">>),
          Text("prose", Json(FALSE, EmptyDict), <<"s", "o", "r", "r", "y">>)}

Response(raised, status_code, decodable, has_response, text) ==
    [raised |-> raised, status_code |-> status_code, decodable |-> decodable,
     has_response |-> has_response, text |-> text]

(* What the backend of a classifier can give.  Only the Ollama classifier  *)
(* reads a status, decodes a body and looks for the key response; the      *)
(* clients of the two others raise where it finds a status other than 200  *)
Responses(kind) ==
    LET none == Text("prose", Json(FALSE, EmptyDict), <<>>)
    IN  {Response(TRUE, 0, FALSE, FALSE, none)}
        \cup {Response(FALSE, 200, TRUE, TRUE, t) : t \in Texts}
        \cup (IF kind = "ollama"
                THEN {Response(FALSE, 500, TRUE, TRUE, none),
                      Response(FALSE, 200, FALSE, FALSE, none),
                      Response(FALSE, 200, TRUE, FALSE, none)}
                ELSE {})

(* The outcome of a call: an exception, or the dict returned *)
Outcome(raised, fields) == [raised |-> raised, result |-> fields]

(* llm_classifier.py 181-189, openai_classifier.py 166-175: json.loads and *)
(* the check of the required fields                                        *)
loads_and_validates(parsed, value) ==
    IF ~parsed THEN Outcome(TRUE, EmptyDict)
    ELSE IF ~value.is_dict THEN Outcome(TRUE, EmptyDict)
    ELSE IF ~({"category", "type", "confidence", "reasoning"} \subseteq DOMAIN value.fields)
        THEN Outcome(TRUE, EmptyDict)
    ELSE Outcome(FALSE, value.fields)

(* llm_classifier.py 132-189: JSON is taken out of a code fence if there   *)
(* is one                                                                  *)
_call_llm_api(response) ==
    IF response.raised THEN Outcome(TRUE, EmptyDict)
    ELSE loads_and_validates(response.text.form \in {"json", "fenced"},
                             response.text.value)

(* openai_classifier.py 127-175 *)
_call_openai_api(response) ==
    IF response.raised THEN Outcome(TRUE, EmptyDict)
    ELSE loads_and_validates(response.text.form = "json", response.text.value)

(* ollama_classifier.py 233-265: kw in text_lower, for the keywords of     *)
(* parking, of a column and of a wall                                      *)
_extract_from_text(text, block_name) ==
    LET text_lower == text \o block_name
    IN  IF \/ search(Lit(<<"uC8FC", "uCC28">>), text_lower)
           \/ search(Lit(<<"p", "a", "r", "k">>), text_lower)
           \/ search(Lit(<<"p", "a", "r", "k", "i", "n", "g">>), text_lower)
            THEN [category |-> "parking", type |-> "basic",
                  confidence |-> 7 * (ConfidenceUnit \div 10),
                  reasoning |-> <<"parking keyword">>]
        ELSE IF \/ search(Lit(<<"uAE30", "uB465">>), text_lower)
                \/ search(Lit(<<"c", "o", "l", "u", "m", "n">>), text_lower)
            THEN [category |-> "structure", type |-> "column",
                  confidence |-> 7 * (ConfidenceUnit \div 10),
                  reasoning |-> <<"column keyword">>]
        ELSE IF \/ search(Lit(<<"uBCBD">>), text_lower)
                \/ search(Lit(<<"w", "a", "l", "l">>), text_lower)
            THEN [category |-> "structure", type |-> "wall",
                  confidence |-> 7 * (ConfidenceUnit \div 10),
                  reasoning |-> <<"wall keyword">>]
        ELSE [category |-> "other", type |-> "unclassified",
              confidence |-> 3 * (ConfidenceUnit \div 10),
              reasoning |-> <<"not classifiable">>]

(* ollama_classifier.py 164-231; with_defaults (220-229) gives the fields  *)
(* not in the result their defaults                                        *)
_call_ollama_api(response, block_name) ==
    LET defaults == [category |-> "other", type |-> "unclassified",
                     confidence |-> 5 * (ConfidenceUnit \div 10),
                     reasoning |-> <<"automatic">>]
        with_defaults(fields) ==
            [key \in DOMAIN fields \cup DOMAIN defaults |->
                IF key \in DOMAIN fields THEN fields[key] ELSE defaults[key]]
    IN  IF response.raised THEN Outcome(TRUE, EmptyDict)
        ELSE IF response.status_code # 200 THEN Outcome(TRUE, EmptyDict)
        ELSE IF ~response.decodable THEN Outcome(TRUE, EmptyDict)
        ELSE IF ~response.has_response THEN Outcome(FALSE, with_defaults(EmptyDict))
        ELSE IF response.text.form # "json"
            THEN Outcome(FALSE, with_defaults(
                     _extract_from_text(response.text.chars, block_name)))
        ELSE IF ~response.text.value.is_dict THEN Outcome(TRUE, EmptyDict)
        ELSE Outcome(FALSE, with_defaults(response.text.value.fields))

RemoteNames == {Names.EV, Names.PARK, Names.XYZ}

(* A remote classifier after __init__ *)
InitRemote ==
    /\ doc = [modelspace |-> <<>>, blocks |-> [n \in {"A"} |-> <<>>]]
    /\ max_depth = 0
    /\ status = "classifier"
    /\ entities = <<>>
    /\ ms_idx = 1
    /\ stack = <<>>
    /\ result = <<>>
    /\ block_geometry_cache = NoCache
    /\ warnings = [depth |-> 0, missing |-> 0]
    /\ scans = NoCount
    /\ resolves = NoCount
    /\ resolved = [n \in BlockNames |-> {}]
    /\ geo_in = NoGeoCall
    /\ geo_out = <<>>
    /\ classifier \in RemoteClassifiers
    /\ enable_cache \in BOOLEAN
    /\ cache_manager \in IF enable_cache
                            THEN {CacheManager(c) : c \in LoadedCaches}
                            ELSE {NoCacheManager}
    /\ stats = [total_requests |-> 0, cache_hits |-> 0, api_calls |-> 0, errors |-> 0]
    /\ clock = 1
    /\ calls = <<>>

(* classify(block_name, context) with an entry in the cache: the backend   *)
(* is not called                                                           *)
RemoteCached ==
    /\ classifier \in RemoteClassifiers
    /\ Len(calls) < MaxRemoteCalls
    /\ \E block_name \in RemoteNames :
          /\ cache_hit(block_name)
          /\ LET cached == CacheManager_get(cache_manager.cache, block_name).value
             IN  calls' = Append(calls,
                    [block_name |-> block_name, response |-> NoValue,
                     returned |-> Classification(cached["category"], cached["type"],
                                     cached["confidence"], cached["reasoning"],
                                     "cached")])
    /\ stats' = [stats EXCEPT !.total_requests = @ + 1, !.cache_hits = @ + 1]
    /\ UNCHANGED <<classifier, enable_cache, cache_manager, clock>>
    /\ UNCHANGED extractor_vars
    /\ UNCHANGED geo_vars

(* The except branch, mutated: the failure is stored like a result *)
manager_after_error_stored(manager, block_name, now) ==
    store_result(manager, block_name,
                 Classification("other", "unclassified", 0,
                                <<"classification failed">>, "error"), now)

(* The except branch of classify (llm_classifier.py 118-130,               *)
(* openai_classifier.py 115-125, ollama_classifier.py 152-162): the cache  *)
(* is not written                                                          *)
manager_after_error(manager, block_name, now) == manager

(* classify(block_name, context) without an entry in the cache: the try    *)
(* block that calls the backend, and its except branch                     *)
RemoteClassify ==
    /\ classifier \in RemoteClassifiers
    /\ Len(calls) < MaxRemoteCalls
    /\ \E block_name \in RemoteNames, response \in Responses(classifier) :
          /\ ~cache_hit(block_name)
          /\ LET outcome == IF classifier = "llm" THEN _call_llm_api(response)
                            ELSE IF classifier = "openai" THEN _call_openai_api(response)
                            ELSE _call_ollama_api(response, block_name)
             IN  IF outcome.raised
                    THEN /\ stats' = [stats EXCEPT !.total_requests = @ + 1,
                                                   !.errors = @ + 1]
                         /\ cache_manager' = manager_after_error(cache_manager,
                                                                  block_name, clock)
                         /\ clock' = clock
                         /\ calls' = Append(calls,
                               [block_name |-> block_name, response |-> Value(response),
                                returned |-> Classification("other", "unclassified", 0,
                                                <<"classification failed">>, "error")])
                    ELSE /\ stats' = [stats EXCEPT !.total_requests = @ + 1,
                                                   !.api_calls = @ + 1]
                         /\ cache_manager' = store_result(cache_manager, block_name,
                                                          outcome.result, clock)
                         /\ clock' = clock + 1
                         /\ calls' = Append(calls,
                               [block_name |-> block_name, response |-> Value(response),
                                returned |-> Classification(outcome.result["category"],
                                                outcome.result["type"],
                                                outcome.result["confidence"],
                                                outcome.result["reasoning"],
                                                classifier)])
    /\ UNCHANGED <<classifier, enable_cache>>
    /\ UNCHANGED extractor_vars
    /\ UNCHANGED geo_vars

NextRemote ==
    \/ RemoteCached
    \/ RemoteClassify

SpecRemote == InitRemote /\ [][NextRemote]_vars

(***************************************************************************)
(* get_stats of a classifier: a copy of self.stats with the size of the    *)
(* cache (CacheManager.get_stats, cache_manager.py 79-92) and the rates,   *)
(* which are 0.0 if there was no request                                   *)
(***************************************************************************)
get_stats ==
    LET entries     == cache_manager.cache
        categories  == [c \in {entries[n]["category"] : n \in DOMAIN entries} |->
                          Cardinality({n \in DOMAIN entries : entries[n]["category"] = c})]
        cache_stats == IF DOMAIN entries = {}
                          THEN [total |-> 0]
                          ELSE [total |-> Cardinality(DOMAIN entries),
                                categories |-> categories]
        rate(count) == IF stats.total_requests > 0
                          THEN Rat(count, stats.total_requests) ELSE Rat(0, 1)
        with_cache  == IF cache_manager.is_none THEN stats
                       ELSE dict_with(dict_with(stats, "cache_size", cache_stats.total),
                                "cache_categories",
                                IF "categories" \in DOMAIN cache_stats
                                    THEN cache_stats.categories ELSE EmptyDict)
        with_rate   == dict_with(with_cache, "cache_hit_rate", rate(stats.cache_hits))
    IN  IF classifier = "rule-based"
            THEN dict_with(with_rate, "classification_rate", rate(stats.rule_matches))
            ELSE with_rate

(***************************************************************************)
(* _match_geometry applied to every rule of the table and to contexts with *)
(* and without an area and a vertex count; calls holds the last            *)
(* application                                                             *)
(***************************************************************************)
(* dicts with the key area or not, with the key vertex_count or not *)
ScoreContexts ==
    LET areas         == {0, 5, 150, 60000, 12000000}
        vertex_counts == {0, 3, 4}
    IN  {EmptyDict}
        \cup {[area |-> a] : a \in areas}
        \cup {[vertex_count |-> v] : v \in vertex_counts}
        \cup {Context(a, v) : a \in areas, v \in vertex_counts}

InitScore ==
    /\ doc = [modelspace |-> <<>>, blocks |-> [n \in {"A"} |-> <<>>]]
    /\ max_depth = 0
    /\ status = "score"
    /\ entities = <<>>
    /\ ms_idx = 1
    /\ stack = <<>>
    /\ result = <<>>
    /\ block_geometry_cache = NoCache
    /\ warnings = [depth |-> 0, missing |-> 0]
    /\ scans = NoCount
    /\ resolves = NoCount
    /\ resolved = [n \in BlockNames |-> {}]
    /\ geo_in = NoGeoCall
    /\ geo_out = <<>>
    /\ NoClassifier

(* geo_score = self._match_geometry(context, rule) *)
MatchGeometry ==
    /\ status = "score"
    /\ \E i \in 1..Len(_build_rules), context \in ScoreContexts :
          calls' = <<[rule |-> i, context |-> context,
                      score |-> _match_geometry(context, _build_rules[i])]>>
    /\ UNCHANGED <<classifier, enable_cache, cache_manager, stats, clock>>
    /\ UNCHANGED extractor_vars
    /\ UNCHANGED geo_vars

SpecScore == InitScore /\ [][MatchGeometry]_vars

(***************************************************************************)
(* _match_keywords applied to a name and to the keywords of a rule, as     *)
(* listed or in the opposite order, and the classification of the name by  *)
(* all rules.  calls holds one application: first with its arguments only  *)
(* (score -1), then with its results.                                      *)
(***************************************************************************)
(* The names above, and one in which a keyword matches across a "$" *)
KeywordNames ==
    ClassifiedNames \cup {<<"F", "I", "R", "E", "$", "S", "A", "F", "E", "T", "Y">>}

(* The keywords of the i-th rule, as listed or in the opposite order *)
keywords_of(i, reversed) ==
    LET keywords == _build_rules[i].keywords
    IN  IF reversed
            THEN [k \in 1..Len(keywords) |-> keywords[Len(keywords) + 1 - k]]
            ELSE keywords

InitKeywords ==
    /\ doc = [modelspace |-> <<>>, blocks |-> [n \in {"A"} |-> <<>>]]
    /\ max_depth = 0
    /\ status = "keywords"
    /\ entities = <<>>
    /\ ms_idx = 1
    /\ stack = <<>>
    /\ result = <<>>
    /\ block_geometry_cache = NoCache
    /\ warnings = [depth |-> 0, missing |-> 0]
    /\ scans = NoCount
    /\ resolves = NoCount
    /\ resolved = [n \in BlockNames |-> {}]
    /\ geo_in = NoGeoCall
    /\ geo_out = <<>>
    /\ classifier = "none"
    /\ enable_cache = FALSE
    /\ cache_manager = NoCacheManager
    /\ stats = <<>>
    /\ clock = 0
    /\ \E block_name \in KeywordNames, i \in 1..Len(_build_rules),
          reversed \in BOOLEAN, context \in Contexts :
          calls = <<[block_name |-> block_name, rule |-> i, reversed |-> reversed,
                     context |-> context, score |-> -1, returned |-> Unclassified]>>

(* Lines 348-350 and 375-387: match_score of one rule, and the result of   *)
(* _classify_by_rules for the name                                         *)
MatchKeywords ==
    /\ status = "keywords"
    /\ calls[1].score = -1
    /\ calls' = <<[calls[1] EXCEPT
                     !.score = _match_keywords(calls[1].block_name,
                                   keywords_of(calls[1].rule, calls[1].reversed)),
                     !.returned = _classify_by_rules(calls[1].block_name,
                                                     calls[1].context).result]>>
    /\ UNCHANGED <<classifier, enable_cache, cache_manager, stats, clock>>
    /\ UNCHANGED extractor_vars
    /\ UNCHANGED geo_vars

SpecKeywords == InitKeywords /\ [][MatchKeywords]_vars

(***************************************************************************)
(* LLMLayerClassifier.batch_classify (llm_classifier.py 191-236).  The     *)
(* object is written self: its counters, its cache and the clock.          *)
(***************************************************************************)
MaxBatch == 2

(* llm_classifier.py 65-130: classify(block_name, context), the backend    *)
(* giving response if it is called                                         *)
classify(self, block_name, response) ==
    LET counted == [self EXCEPT !.stats = increment(@, "total_requests")]
        cached  == CacheManager_get(self.cache_manager.cache, block_name)
        outcome == _call_llm_api(response)
    IN  IF enable_cache /\ ~self.cache_manager.is_none /\ cached_found(cached)
            THEN [self |-> [counted EXCEPT !.stats = increment(@, "cache_hits")],
                  returned |-> Classification(cached.value["category"],
                                   cached.value["type"], cached.value["confidence"],
                                   cached.value["reasoning"], "cached")]
        ELSE IF outcome.raised
            THEN [self |-> [counted EXCEPT !.stats = increment(@, "errors")],
                  returned |-> Classification("other", "unclassified", 0,
                                   <<"classification failed">>, "error")]
        ELSE [self |-> [counted EXCEPT
                           !.stats = increment(@, "api_calls"),
                           !.cache_manager = store_result(@, block_name, outcome.result,
                                                          self.clock),
                           !.clock = @ + 1],
              returned |-> Classification(outcome.result["category"],
                               outcome.result["type"], outcome.result["confidence"],
                               outcome.result["reasoning"], "llm")]

(* Lines 228-234: the loop over uncached_blocks, from its i-th block on;   *)
(* responses[i] is what the backend gives to the call for the i-th block   *)
RECURSIVE classify_each(_, _, _, _, _)
classify_each(self, uncached_blocks, responses, i, results) ==
    IF i > Len(uncached_blocks) THEN [self |-> self, returned |-> results]
    ELSE LET r == classify(self, uncached_blocks[i], responses[i])
         IN  classify_each(r.self, uncached_blocks, responses, i + 1,
                           Append(results, r.returned))

(* Lines 191-236: the first loop appends the entry of each cached block to *)
(* results and counts a hit; the second appends the result of classify for *)
(* each of the other blocks                                                *)
batch_classify(self, blocks, responses) ==
    LET batch_cached(block_name) ==
            /\ enable_cache /\ ~self.cache_manager.is_none
            /\ cached_found(CacheManager_get(self.cache_manager.cache, block_name))
        cached_blocks   == SelectSeq(blocks, batch_cached)
        uncached_blocks == SelectSeq(blocks, LAMBDA n : ~batch_cached(n))
        results == [i \in 1..Len(cached_blocks) |->
                      LET cached == CacheManager_get(self.cache_manager.cache,
                                                     cached_blocks[i]).value
                      IN  Classification(cached["category"], cached["type"],
                              cached["confidence"], cached["reasoning"], "cached")]
        counted == [self EXCEPT !.stats.cache_hits = @ + Len(cached_blocks)]
    IN  classify_each(counted, uncached_blocks, responses, 1, results)

InitBatch ==
    /\ InitRemote
    /\ classifier = "llm"

(* A call of batch_classify with the names blocks, of which one may have   *)
(* an entry in the loaded cache; to each call of the backend it gives an   *)
(* exception or an object with all fields                                  *)
BatchClassify ==
    /\ classifier = "llm"
    /\ Len(calls) < MaxRemoteCalls
    /\ \E blocks \in SeqsOf({Names.EV, Names.XYZ}, 0, MaxBatch) :
          \E responses \in [1..Len(blocks) ->
                  {r \in Responses("llm") :
                      r.raised \/ (r.text.form = "fenced" /\ r.text.value.is_dict)}] :
              LET self == [stats |-> stats, cache_manager |-> cache_manager,
                           clock |-> clock]
                  r == batch_classify(self, blocks, responses)
              IN  /\ stats' = r.self.stats
                  /\ cache_manager' = r.self.cache_manager
                  /\ clock' = r.self.clock
                  /\ calls' = Append(calls, [blocks |-> blocks,
                                             cache_before |-> cache_manager,
                                             returned |-> r.returned])
    /\ UNCHANGED <<classifier, enable_cache>>
    /\ UNCHANGED extractor_vars
    /\ UNCHANGED geo_vars

NextBatch ==
    \/ RemoteCached
    \/ RemoteClassify
    \/ BatchClassify

SpecBatch == InitBatch /\ [][NextBatch]_vars

(***************************************************************************)
(* _classify_by_rules applied to a name and to a context with or without   *)
(* an area and a vertex count, in and out of the ranges of the rules.      *)
(* calls holds one application: first its arguments, then its result too.  *)
(***************************************************************************)
InitRules ==
    /\ doc = [modelspace |-> <<>>, blocks |-> [n \in {"A"} |-> <<>>]]
    /\ max_depth = 0
    /\ status = "rules"
    /\ entities = <<>>
    /\ ms_idx = 1
    /\ stack = <<>>
    /\ result = <<>>
    /\ block_geometry_cache = NoCache
    /\ warnings = [depth |-> 0, missing |-> 0]
    /\ scans = NoCount
    /\ resolves = NoCount
    /\ resolved = [n \in BlockNames |-> {}]
    /\ geo_in = NoGeoCall
    /\ geo_out = <<>>
    /\ classifier = "none"
    /\ enable_cache = FALSE
    /\ cache_manager = NoCacheManager
    /\ stats = <<>>
    /\ clock = 0
    /\ \E block_name \in ClassifiedNames, context \in ScoreContexts :
          calls = <<[block_name |-> block_name, context |-> context,
                     applied |-> FALSE, returned |-> Unclassified]>>

(* Lines 337-387: _classify_by_rules(block_name, context) *)
ApplyRules ==
    /\ status = "rules"
    /\ ~calls[1].applied
    /\ calls' = <<[calls[1] EXCEPT
                     !.applied = TRUE,
                     !.returned = _classify_by_rules(calls[1].block_name,
                                                     calls[1].context).result]>>
    /\ UNCHANGED <<classifier, enable_cache, cache_manager, stats, clock>>
    /\ UNCHANGED extractor_vars
    /\ UNCHANGED geo_vars

SpecRules == InitRules /\ [][ApplyRules]_vars

(***************************************************************************)
(* Properties                                                              *)
(***************************************************************************)
(* The calls of _extract_from_insert that are active: the k-th has depth   *)
(* k - 1, one more than its caller, and none is deeper than max_depth + 1  *)
CallDepths ==
    \A k \in 1..Len(stack) :
        /\ stack[k].depth = k - 1
        /\ stack[k].depth <= max_depth + 1

(* Where the run is: whether it has returned, the position of the loop     *)
(* over model space, and for each active call 0 before its loop or the     *)
(* position of its loop over the block                                     *)
Position ==
    <<IF status = "running" THEN 0 ELSE 1, ms_idx>>
    \o [k \in 1..Len(stack) |-> IF stack[k].pc = "entry" THEN 0 ELSE stack[k].idx]

(* The entities the loop of the k-th active call runs over *)
LoopLength(k) ==
    IF stack[k].insert_entity.name \in DOMAIN doc.blocks
        THEN Len(doc.blocks[stack[k].insert_entity.name])
        ELSE 0

(* Positions are sequences of at most max_depth + 4 numbers, each at most  *)
(* one more than the length of the list its loop runs over: finitely many  *)
PositionBounded ==
    /\ Len(stack) <= max_depth + 2
    /\ ms_idx \in 1..(Len(doc.modelspace) + 1)
    /\ \A k \in 1..Len(stack) : stack[k].idx \in 1..(LoopLength(k) + 1)

(* The statement the run is at can be executed: the guard of one of the    *)
(* steps of Next holds                                                     *)
HasNextStep ==
    \/ AtModelspaceOther \/ AtModelspaceInsert \/ AtModelspaceEnd
    \/ AtDepthExceeded \/ AtBlockMissing \/ AtBlockLookup
    \/ AtNestedOther \/ AtNestedInsert \/ AtNestedEnd

(* p is before q in the lexicographic order (a proper prefix is before)    *)
LexLess(p, q) ==
    \E k \in 1..Len(q) :
        /\ \A j \in 1..(k - 1) : j <= Len(p) /\ p[j] = q[j]
        /\ k <= Len(p) => p[k] < q[k]
        /\ k > Len(p) => k = Len(p) + 1

(* C2: for every document, also one whose blocks reference themselves or   *)
(* each other, extract_all_blocks terminates and returns: each recursive   *)
(* call is one deeper than its caller and none is deeper than              *)
(* max_depth + 1; the run never raises and, until it has returned, has a   *)
(* next step; and every step moves the run to a later one of the finitely  *)
(* many positions, so that no run goes on for ever.                        *)
C2_Terminates ==
    /\ [](CallDepths /\ PositionBounded /\ status # "raised")
    /\ [](status = "running" => HasNextStep)
    /\ [][LexLess(Position, Position')]_vars

(* A run over a document whose block "A" references itself and whose       *)
(* blocks "A" and "B" reference each other has returned; the recursion was *)
(* cut by the depth bound and entities were made on the way                *)
C2_Witness ==
    /\ status = "done"
    /\ "B" \in DOMAIN doc.blocks
    /\ \E i \in 1..Len(doc.blocks["A"]) : doc.blocks["A"][i] = InsertOf("A")
    /\ \E i \in 1..Len(doc.blocks["A"]) : doc.blocks["A"][i] = InsertOf("B")
    /\ \E i \in 1..Len(doc.blocks["B"]) : doc.blocks["B"][i] = InsertOf("A")
    /\ warnings.depth >= 1
    /\ Len(result) >= 1

(***************************************************************************)
(* The document as a tree of instance references                           *)
(***************************************************************************)
IsInsert(entity) == entity.dxftype = "INSERT"

(* The elements of a sequence *)
Range(seq) == {seq[i] : i \in 1..Len(seq)}

(* Every entity made so far: in the list of extract_all_blocks, in the     *)
(* lists of the active calls, and in the list returned                     *)
MadeEntities ==
    Range(entities) \cup Range(result)
        \cup UNION {Range(stack[k].entities) : k \in 1..Len(stack)}

(* The block has a geometry: scanning its primitives finds a polygon *)
HasGeometry(block_name) ==
    truthy(scan_block(doc.blocks[block_name], 1, NoList, 0))

(* The instance references the traversal has to visit, as paths: those of  *)
(* the list block_entities at depth `depth`, reached by `prefix`, and      *)
(* those below them in blocks the document defines, down to max_depth      *)
RECURSIVE VisitedFrom(_, _, _)
VisitedFrom(block_entities, depth, prefix) ==
    IF depth > max_depth THEN {}
    ELSE UNION {
            {Append(prefix, i)} \cup
            (IF block_entities[i].name \in DOMAIN doc.blocks
                THEN VisitedFrom(doc.blocks[block_entities[i].name], depth + 1,
                                 Append(prefix, i))
                ELSE {}) :
            i \in {j \in 1..Len(block_entities) : IsInsert(block_entities[j])}}

Visited == VisitedFrom(doc.modelspace, 0, <<>>)

(* The instance reference a path leads to *)
RECURSIVE InsertAtFrom(_, _)
InsertAtFrom(block_entities, path) ==
    IF Len(path) = 1 THEN block_entities[path[1]]
    ELSE InsertAtFrom(doc.blocks[block_entities[path[1]].name], Tail(path))

InsertAt(path) == InsertAtFrom(doc.modelspace, path)

(* The visited instance references whose block is defined and has a        *)
(* geometry                                                                *)
VisitedWithGeometry ==
    {p \in Visited : /\ InsertAt(p).name \in DOMAIN doc.blocks
                     /\ HasGeometry(InsertAt(p).name)}

(* The visited instance references whose block the document lacks *)
VisitedMissing == {p \in Visited : InsertAt(p).name \notin DOMAIN doc.blocks}

(* The same, in document traversal order: an instance reference, then the  *)
(* instance references inside its block in their order, then the next      *)
(* instance reference of the same list                                     *)
RECURSIVE PreOrderFrom(_, _, _, _)
PreOrderFrom(block_entities, i, depth, prefix) ==
    IF i > Len(block_entities) \/ depth > max_depth THEN <<>>
    ELSE LET e    == block_entities[i]
             path == Append(prefix, i)
             here == IF IsInsert(e) /\ e.name \in DOMAIN doc.blocks
                        THEN (IF HasGeometry(e.name) THEN <<path>> ELSE <<>>)
                             \o PreOrderFrom(doc.blocks[e.name], 1, depth + 1, path)
                        ELSE <<>>
         IN  here \o PreOrderFrom(block_entities, i + 1, depth, prefix)

PreOrder == PreOrderFrom(doc.modelspace, 1, 0, <<>>)

(***************************************************************************)
(* C1                                                                      *)
(***************************************************************************)
(* C1: every entity is made for an instance reference at a depth from 0 to *)
(* max_depth (the instances of model space are at depth 0), the run does   *)
(* not raise, and when instance chains are cut at the depth limit the list *)
(* returned still holds an entity for every instance reference down to     *)
(* max_depth whose block has a geometry.                                   *)
C1_DepthBound ==
    /\ status # "raised"
    /\ \A e \in MadeEntities :
          /\ e.depth \in 0..max_depth
          /\ e.depth = Len(e.path) - 1
    /\ status = "done" =>
          \A p \in VisitedWithGeometry : \E e \in Range(result) : e.path = p

(* A run that cut a chain at the limit and returned entities of every      *)
(* depth up to the limit                                                   *)
C1_Witness ==
    /\ status = "done"
    /\ warnings.depth >= 1
    /\ max_depth >= 1
    /\ \A d \in 0..max_depth : \E e \in Range(result) : e.depth = d

(***************************************************************************)
(* C3                                                                      *)
(***************************************************************************)
(* The path q leads to p or to an instance reference above p *)
IsPrefix(q, p) == Len(q) <= Len(p) /\ SubSeq(p, 1, Len(q)) = q

(* C3: an instance reference to a block the document lacks does not make   *)
(* the run raise; it is logged once, no entity is made for it or below it, *)
(* and the list returned holds the entity of every other instance          *)
(* reference whose block has a geometry.                                   *)
C3_MissingBlockSkipped ==
    /\ status # "raised"
    /\ \A e \in MadeEntities :
          \A k \in 1..Len(e.path) :
              InsertAt(SubSeq(e.path, 1, k)).name \in DOMAIN doc.blocks
    /\ status = "done" =>
          /\ warnings.missing = Cardinality(VisitedMissing)
          /\ \A p \in VisitedWithGeometry :
                (\A q \in VisitedMissing : ~IsPrefix(q, p))
                    => \E e \in Range(result) : e.path = p

(* A run over a document that lacks a block referenced in model space and  *)
(* inside a block, which returned the entities of that block and of a      *)
(* sibling of the missing reference                                        *)
C3_Witness ==
    /\ status = "done"
    /\ \E q \in VisitedMissing : Len(q) = 1
    /\ \E q \in VisitedMissing :
          /\ Len(q) = 2
          /\ \E e \in Range(result) : e.path = SubSeq(q, 1, 1)
          /\ \E e \in Range(result) :
                Len(e.path) = 2 /\ e.path[1] = q[1] /\ e.path[2] # q[2]

(***************************************************************************)
(* C4                                                                      *)
(***************************************************************************)
(* C4: within a run every call of the resolver for one block name returns  *)
(* the same vertex sequence, and no step of the run (resolving any block,  *)
(* transforming the geometry for an instance, computing areas, building    *)
(* entities, returning) changes the polygon stored for a block.            *)
C4_ResolvedGeometryStable ==
    /\ [](\A n \in BlockNames : Cardinality(resolved[n]) <= 1)
    /\ [][\A n \in BlockNames :
            ~block_geometry_cache[n].is_none
                => block_geometry_cache'[n] = block_geometry_cache[n]]_vars

(* A block with a polygon was resolved for three instances or more, each   *)
(* placed with a rotation and a scale, and the run has returned            *)
C4_Witness ==
    /\ status = "done"
    /\ resolves["A"] >= 3
    /\ ~block_geometry_cache["A"].is_none
    /\ \E e \in Range(result) :
          e.block_name = "A" /\ e.vertices # block_geometry_cache["A"].list

(***************************************************************************)
(* C5                                                                      *)
(***************************************************************************)
(* C5 as claimed: whatever the result of a block, a polygon or None, its   *)
(* primitives are scanned at most once in a run.                           *)
C5_ScannedOnceWhateverResult ==
    \A n \in BlockNames : scans[n] <= 1

(* C5, amended: a block whose result is a polygon is scanned once, by the  *)
(* first call, and every later call returns the stored polygon; a block    *)
(* whose result is None is not stored, and every call for it scans its     *)
(* primitives again and returns None.                                      *)
C5_PolygonMemoized ==
    \A n \in BlockNames :
        resolves[n] >= 1 =>
            IF block_geometry_cache[n].is_none
                THEN scans[n] = resolves[n] /\ resolved[n] = {NoList}
                ELSE scans[n] = 1 /\ resolved[n] = {block_geometry_cache[n]}

(* A block with a polygon was resolved three times and scanned once *)
C5_Witness ==
    \E n \in BlockNames :
        /\ resolves[n] >= 3
        /\ scans[n] = 1
        /\ ~block_geometry_cache[n].is_none

(***************************************************************************)
(* C7                                                                      *)
(***************************************************************************)
(* The entity is a closed polygon of at least 3 vertices *)
IsClosedPolygon(entity) ==
    \/ entity.dxftype = "CIRCLE"
    \/ /\ entity.dxftype \in {"LWPOLYLINE", "POLYLINE"}
       /\ entity.closed
       /\ Len(entity.points) >= 3

(* C7 as claimed: a block with no closed polygon of at least 3 vertices    *)
(* resolves to None, and no entity is made for an instance of it.          *)
C7_NoClosedPolygonNoEntity ==
    \A n \in DOMAIN doc.blocks :
        (~\E i \in 1..Len(doc.blocks[n]) : IsClosedPolygon(doc.blocks[n][i]))
            => /\ resolved[n] \subseteq {NoList}
               /\ \A e \in MadeEntities : e.block_name # n

(***************************************************************************)
(* C8                                                                      *)
(***************************************************************************)
(* C8: the list returned is in document traversal order: it holds, in      *)
(* pre-order, one entity for each visited instance reference whose block   *)
(* has a geometry, neither sorted nor with duplicates removed.             *)
C8_TraversalOrder ==
    status = "done" => [i \in 1..Len(result) |-> result[i].path] = PreOrder

(* A list returned with an instance of model space, two instances nested   *)
(* in it that are equal but for their place in the document, an instance   *)
(* nested in the first of these, and a later instance of model space       *)
C8_Witness ==
    /\ status = "done"
    /\ \E i, j, k, l, m \in 1..Len(result) :
          /\ i < j /\ j < k /\ k < l /\ l < m
          /\ Len(result[i].path) = 1
          /\ Len(result[j].path) = 2 /\ IsPrefix(result[i].path, result[j].path)
          /\ Len(result[k].path) = 3 /\ IsPrefix(result[j].path, result[k].path)
          /\ Len(result[l].path) = 2 /\ IsPrefix(result[i].path, result[l].path)
          /\ result[l].block_name = result[j].block_name
          /\ result[l].vertices = result[j].vertices
          /\ Len(result[m].path) = 1

(***************************************************************************)
(* C6                                                                      *)
(***************************************************************************)
(* The vertex list of a polyline, a lightweight polyline or a circle *)
PrimitiveVertices(entity) ==
    IF entity.dxftype = "CIRCLE"
        THEN extract_circle_vertices(entity.center, entity.radius)
        ELSE entity.points

(* The direct primitives of a block that count: polylines, lightweight     *)
(* polylines and circles with at least 3 vertices                          *)
Candidates(block_entities) ==
    {i \in 1..Len(block_entities) :
        /\ block_entities[i].dxftype \in {"LWPOLYLINE", "POLYLINE", "CIRCLE"}
        /\ Len(PrimitiveVertices(block_entities[i])) >= 3}

AreaOf(block_entities, i) == calculate_area(PrimitiveVertices(block_entities[i]))

(* The first, in the block's order, of the candidates of maximum area *)
FirstLargest(block_entities) ==
    CHOOSE i \in Candidates(block_entities) :
        /\ \A j \in Candidates(block_entities) :
              AreaOf(block_entities, j) <= AreaOf(block_entities, i)
        /\ \A j \in Candidates(block_entities) :
              j < i => AreaOf(block_entities, j) < AreaOf(block_entities, i)

(* C6 as claimed: the resolver returns the vertex list of the first direct *)
(* primitive of maximum area.                                              *)
C6_ReturnsFirstLargest ==
    (resolves["A"] >= 1 /\ Candidates(doc.blocks["A"]) # {}) =>
        resolved["A"] =
            {List(PrimitiveVertices(doc.blocks["A"][FirstLargest(doc.blocks["A"])]))}

(* C6, amended: the resolver returns the vertex list of the first direct   *)
(* primitive of maximum area when that area is positive; when the block    *)
(* has no such primitive, or all of them have area zero, it returns None.  *)
(* Instance references inside the block do not contribute.                 *)
C6_ReturnsFirstLargestPositive ==
    resolves["A"] >= 1 =>
        LET block == doc.blocks["A"]
        IN  IF Candidates(block) # {} /\ AreaOf(block, FirstLargest(block)) > 0
                THEN resolved["A"] =
                        {List(PrimitiveVertices(block[FirstLargest(block)]))}
                ELSE resolved["A"] = {NoList}

(* A block resolved to its rectangle, which comes before a square of the   *)
(* same area and an instance reference                                     *)
C6_Witness ==
    /\ resolves["A"] >= 1
    /\ \E i, j, k \in 1..Len(doc.blocks["A"]) :
          /\ i < j
          /\ doc.blocks["A"][i] = Rectangle
          /\ doc.blocks["A"][j] = Square
          /\ IsInsert(doc.blocks["A"][k])
    /\ AreaOf(<<Rectangle>>, 1) = AreaOf(<<Square>>, 1)
    /\ resolved["A"] = {List(Rectangle.points)}

(***************************************************************************)
(* C9                                                                      *)
(***************************************************************************)
(* A point turned about the origin by a whole number of quarter turns *)
QuarterTurn(rotation, p) ==
    IF rotation = 0 THEN p
    ELSE IF rotation = 90 THEN <<-p[2], p[1]>>
    ELSE IF rotation = 180 THEN <<-p[1], -p[2]>>
    ELSE <<p[2], -p[1]>>

(* The square of side 10 centred at the origin *)
Square10 == << <<-5, -5>>, <<5, -5>>, <<5, 5>>, <<-5, 5>> >>

(* C9: transform_vertices returns as many vertices as it is given, in the  *)
(* same order, each scaled first, then turned about the origin, then moved *)
(* by the insertion point; the vertex (5, 5) of the square of side 10,     *)
(* with scale (2, 1), a rotation of 90 degrees and the insertion point     *)
(* (100, 100), becomes (95, 110).                                          *)
C9_ScaleRotateTranslate ==
    geo_in.fn = "transform_vertices" =>
        /\ Len(geo_out) = Len(geo_in.vertices)
        /\ \A i \in 1..Len(geo_in.vertices) :
              LET scaled == <<geo_in.vertices[i][1] * geo_in.scale_x,
                              geo_in.vertices[i][2] * geo_in.scale_y>>
                  turned == QuarterTurn(geo_in.rotation, scaled)
              IN  geo_out[i] = <<turned[1] + geo_in.insert_point[1],
                                 turned[2] + geo_in.insert_point[2]>>
        /\ (/\ geo_in.vertices = Square10
            /\ geo_in.scale_x = 2 /\ geo_in.scale_y = 1
            /\ geo_in.rotation = 90
            /\ geo_in.insert_point = <<100, 100>>) => geo_out[3] = <<95, 110>>

(* The square of the claim, transformed as the claim says *)
C9_Witness ==
    /\ geo_in.fn = "transform_vertices"
    /\ geo_in.vertices = Square10
    /\ geo_in.scale_x = 2 /\ geo_in.scale_y = 1
    /\ geo_in.rotation = 90
    /\ geo_in.insert_point = <<100, 100>>
    /\ geo_out = << <<105, 90>>, <<105, 110>>, <<95, 110>>, <<95, 90>> >>

(***************************************************************************)
(* C10                                                                     *)
(***************************************************************************)
(* C10: the area of a vertex list is the area of the list reversed, is     *)
(* never negative, and is 0 for fewer than 3 vertices.                     *)
C10_AreaOfReversed ==
    geo_in.fn = "calculate_area" =>
        /\ geo_out = calculate_area(Reverse(geo_in.vertices))
        /\ geo_out >= 0
        /\ Len(geo_in.vertices) < 3 => geo_out = 0

(* The area of a polygon that is not degenerate, wound clockwise *)
C10_Witness ==
    /\ geo_in.fn = "calculate_area"
    /\ Len(geo_in.vertices) = 4
    /\ calculate_area_signed(geo_in.vertices) < 0
    /\ geo_out = -calculate_area_signed(geo_in.vertices)
    /\ geo_out = 200

(***************************************************************************)
(* Properties of the classifiers                                           *)
(***************************************************************************)
(* The entry the cache of the classifier holds for a name, if any *)
holds_entry(block_name) ==
    /\ enable_cache
    /\ ~cache_manager.is_none
    /\ block_name \in DOMAIN cache_manager.cache

last_call == calls[Len(calls)]

(* A step that is one call of classify *)
classify_step == Len(calls') = Len(calls) + 1

(* C11: when the cache is enabled and holds an entry for the name, classify *)
(* returns the category, type, confidence and reasoning of the entry with  *)
(* method "cached"; rule_matches, unclassified and the cache are as before, *)
(* and of the statistics only total_requests and cache_hits grow, by one   *)
C11_CacheHit ==
    [][(classify_step /\ holds_entry(calls'[Len(calls')].block_name)) =>
          LET call  == calls'[Len(calls')]
              entry == cache_manager.cache[call.block_name]
          IN  /\ call.returned = [category |-> entry["category"],
                                  type |-> entry["type"],
                                  confidence |-> entry["confidence"],
                                  reasoning |-> entry["reasoning"],
                                  method |-> "cached"]
              /\ cache_manager' = cache_manager
              /\ stats' = [stats EXCEPT !.total_requests = @ + 1,
                                        !.cache_hits = @ + 1]]_vars

(* A name was classified by the rules, stored, and then served twice from  *)
(* the cache                                                               *)
C11_Witness ==
    /\ Len(calls) = 3
    /\ calls[1].returned.method = "rule-based"
    /\ calls[2].returned.method = "cached"
    /\ calls[3].returned.method = "cached"
    /\ calls[2].block_name = calls[1].block_name
    /\ calls[2].returned.confidence = calls[1].returned.confidence
    /\ stats.cache_hits = 2
    /\ stats.total_requests = 3

(* The final score of the i-th rule for a call: its base confidence times  *)
(* the keyword score times the geometry score                              *)
final_scores ==
    [block_name \in ClassifiedNames |-> [context \in Contexts |->
        [i \in 1..Len(_build_rules) |->
            _build_rules[i].confidence * keyword_scores[block_name][i]
                * _match_geometry(context, _build_rules[i])]]]

final_score(block_name, context, i) == final_scores[block_name][context][i]

(* The rules a keyword of which is found in the name *)
matching_rules(block_name) ==
    {i \in 1..Len(_build_rules) : keyword_scores[block_name][i] > 0}

(* The highest final score of the matching rules, 0 if there is none *)
highest_score(block_name, context) ==
    IF matching_rules(block_name) = {} THEN 0
    ELSE CHOOSE s \in {final_score(block_name, context, i) : i \in matching_rules(block_name)} :
            \A j \in matching_rules(block_name) : final_score(block_name, context, j) <= s

(* The matching rules that reach the highest final score *)
highest_rules(block_name, context) ==
    {i \in matching_rules(block_name) :
        final_score(block_name, context, i) = highest_score(block_name, context)}

(* The lowest index in a set of rule indices *)
lowest(indices) == CHOOSE i \in indices : \A j \in indices : i <= j

(* A call whose result is that of an accepted rule *)
rule_accepted(call) ==
    call.returned.method = "rule-based" /\ call.returned.category # "other"

(* C12: a later rule replaces the incumbent only with a strictly greater   *)
(* final score: of the rules that tie for the highest score, the one of    *)
(* the lowest index gives the category and the type                        *)
C12_TieLowestIndex ==
    \A k \in 1..Len(calls) :
        rule_accepted(calls[k]) =>
            LET first == lowest(highest_rules(calls[k].block_name, calls[k].context))
            IN  /\ calls[k].returned.category = _build_rules[first].category
                /\ calls[k].returned.type = _build_rules[first].type

(* A call for which two rules of different types tie for the highest score *)
C12_Witness ==
    \E k \in 1..Len(calls) :
        /\ rule_accepted(calls[k])
        /\ \E i, j \in highest_rules(calls[k].block_name, calls[k].context) :
              /\ i < j
              /\ _build_rules[i].type # _build_rules[j].type
              /\ calls[k].returned.type = _build_rules[i].type

(* The maximum over all rules of the final score for a call *)
best_score(block_name, context) ==
    CHOOSE s \in {final_score(block_name, context, i) : i \in 1..Len(_build_rules)} :
        \A j \in 1..Len(_build_rules) : final_score(block_name, context, j) <= s

(* A call that did not find its name in the cache *)
cache_missed(call) == call.returned.method # "cached"

(* C13: on a cache miss, with s the maximum over all rules of base         *)
(* confidence x keyword score x geometry score: if s > 0.5 the result has   *)
(* the category and type of a rule that reaches s, confidence s and method *)
(* "rule-based"; if s <= 0.5 the result is other / unclassified with       *)
(* confidence 0.3                                                          *)
C13_DecisionByBestScore ==
    \A k \in 1..Len(calls) :
        cache_missed(calls[k]) =>
            LET s == best_score(calls[k].block_name, calls[k].context)
                r == calls[k].returned
            IN  IF 2 * s > ConfidenceUnit
                    THEN /\ \E i \in 1..Len(_build_rules) :
                               /\ final_score(calls[k].block_name, calls[k].context, i) = s
                               /\ r.category = _build_rules[i].category
                               /\ r.type = _build_rules[i].type
                         /\ r.confidence = s
                         /\ r.method = "rule-based"
                    ELSE /\ r.category = "other"
                         /\ r.type = "unclassified"
                         /\ 10 * r.confidence = 3 * ConfidenceUnit

(* Three misses: a rule above 0.5, a matching rule whose score the         *)
(* geometry brings to 0.5 or less, and a name no rule matches              *)
C13_Witness ==
    /\ Len(calls) = 3
    /\ \A k \in 1..3 : cache_missed(calls[k])
    /\ 2 * best_score(calls[1].block_name, calls[1].context) > ConfidenceUnit
    /\ calls[1].returned.category # "other"
    /\ best_score(calls[2].block_name, calls[2].context) > 0
    /\ 2 * best_score(calls[2].block_name, calls[2].context) <= ConfidenceUnit
    /\ calls[2].returned.category = "other"
    /\ best_score(calls[3].block_name, calls[3].context) = 0
    /\ calls[3].returned.category = "other"

(* C14: two calls of classify with the same name and the same context      *)
(* return the same category, type and confidence, with the cache enabled   *)
(* or disabled, whatever was classified between them                       *)
C14_RepeatedCallsAgree ==
    \A i, j \in 1..Len(calls) :
        (calls[i].block_name = calls[j].block_name /\ calls[i].context = calls[j].context) =>
            /\ calls[i].returned.category = calls[j].returned.category
            /\ calls[i].returned.type = calls[j].returned.type
            /\ calls[i].returned.confidence = calls[j].returned.confidence

(* With the cache enabled: a name is classified with one context, then     *)
(* twice with another context for which the rules alone decide otherwise   *)
C14_Witness ==
    /\ enable_cache
    /\ Len(calls) = 3
    /\ calls[1].block_name = calls[2].block_name
    /\ calls[2].block_name = calls[3].block_name
    /\ calls[1].context # calls[2].context
    /\ calls[2].context = calls[3].context
    /\ rule_results[calls[1].block_name][calls[1].context].result.type
         # rule_results[calls[2].block_name][calls[2].context].result.type
    /\ calls[2].returned.type = calls[3].returned.type

(* cache.get(name) is present and has the four fields of a classification *)
entry_holds(block_name, classification) ==
    LET cached == CacheManager_get(cache_manager.cache, block_name)
    IN  /\ ~cached.is_none
        /\ cached.value["category"] = classification.category
        /\ cached.value["type"] = classification.type
        /\ cached.value["confidence"] = classification.confidence
        /\ cached.value["reasoning"] = classification.reasoning

(* C15: with the cache enabled, right after a call of classify that missed *)
(* the cache, cache.get(name) is present and holds the category, type,     *)
(* confidence and reasoning returned, for an accepted rule and for the     *)
(* fallback; with the cache disabled there is never an entry, and no       *)
(* result has the method "cached"                                          *)
C15_MissStoresResult ==
    /\ (enable_cache /\ Len(calls) > 0 /\ cache_missed(last_call)) =>
           entry_holds(last_call.block_name, last_call.returned)
    /\ ~enable_cache =>
           /\ cache_manager.is_none
           /\ DOMAIN cache_manager.cache = {}
           /\ \A k \in 1..Len(calls) : calls[k].returned.method # "cached"

(* With the cache enabled, the last call missed the cache and returned the *)
(* fallback, after a call that returned an accepted rule; both are stored  *)
C15_Witness ==
    /\ enable_cache
    /\ Len(calls) = 2
    /\ cache_missed(calls[1])
    /\ rule_accepted(calls[1])
    /\ cache_missed(calls[2])
    /\ calls[2].returned = Unclassified
    /\ entry_holds(calls[1].block_name, calls[1].returned)
    /\ entry_holds(calls[2].block_name, calls[2].returned)

(* The greatest number of a non-empty set of numbers *)
greatest(numbers) == CHOOSE n \in numbers : \A o \in numbers : o <= n

(* The last clear() before the k-th record of the log, 0 if there is none *)
last_clear(k) ==
    LET clears == {c \in 1..(k - 1) : calls[c].op = "clear"}
    IN  IF clears = {} THEN 0 ELSE greatest(clears)

(* The calls set(block_name, ...) before the k-th record and after the     *)
(* last clear()                                                            *)
sets_in_force(k, block_name) ==
    {s \in (last_clear(k) + 1)..(k - 1) :
        calls[s].op = "set" /\ calls[s].block_name = block_name}

(* A dict returned by get has exactly the fields of the classification of  *)
(* a call of set, and the time of that call                                *)
returns_fields_of(returned, classification) ==
    /\ ~returned.is_none
    /\ DOMAIN returned.value = DOMAIN classification \cup {"cached_at"}
    /\ \A key \in DOMAIN classification : returned.value[key] = classification[key]

(* C16: in every sequence of get, set and clear, get(name) returns the     *)
(* fields of the most recent set(name, ...) that no clear() follows, and   *)
(* nothing of earlier values for the name or of other names; after a       *)
(* clear() it returns None for every name until the name is set again      *)
C16_LastWriteWins ==
    \A k \in 1..Len(calls) :
        calls[k].op = "get" =>
            LET block_name == calls[k].block_name
                sets       == sets_in_force(k, block_name)
                loaded     == calls[1].classification
            IN  IF sets # {}
                    THEN returns_fields_of(calls[k].returned,
                                           calls[greatest(sets)].classification)
                ELSE IF last_clear(k) = 0 /\ block_name \in DOMAIN loaded
                    THEN calls[k].returned = Value(loaded[block_name])
                ELSE calls[k].returned.is_none

(* A name is set, set again with other fields, and read: the dict has the  *)
(* fields of the second call only; then the cache is cleared and the name  *)
(* is read again: None                                                     *)
C16_Witness ==
    /\ Len(calls) = 6
    /\ calls[2].op = "set"
    /\ calls[3].op = "set"
    /\ calls[4].op = "get"
    /\ calls[5].op = "clear"
    /\ calls[6].op = "get"
    /\ \A k \in {3, 4, 6} : calls[k].block_name = calls[2].block_name
    /\ "confidence" \in DOMAIN calls[2].classification
    /\ "confidence" \notin DOMAIN calls[3].classification
    /\ ~calls[4].returned.is_none
    /\ "confidence" \notin DOMAIN calls[4].returned.value
    /\ calls[6].returned.is_none

(* The backend of a call failed: the client raised (a network error), or   *)
(* what came back is no JSON (a body that cannot be decoded, a text that   *)
(* is prose)                                                               *)
backend_failed(call) ==
    /\ ~call.response.is_none
    /\ \/ call.response.value.raised
       \/ ~call.response.value.decodable
       \/ (call.response.value.has_response /\ call.response.value.text.form = "prose")

(* C17: for each remote classifier, a call of classify whose backend fails *)
(* with a network error or with a response that cannot be parsed returns   *)
(* other / unclassified with confidence 0.0 and method "error", and each   *)
(* such call adds one to the counter errors                                *)
C17_FailureDegradesToError ==
    /\ \A k \in 1..Len(calls) :
          backend_failed(calls[k]) =>
              /\ calls[k].returned.category = "other"
              /\ calls[k].returned.type = "unclassified"
              /\ calls[k].returned.confidence = 0
              /\ calls[k].returned.method = "error"
    /\ stats.errors >= Cardinality({k \in 1..Len(calls) : backend_failed(calls[k])})

(* C18: get_stats() of every classifier has at least the counters of the   *)
(* requests, of the cache hits and of the errors, in every state           *)
C18_StatsCounters ==
    {"total_requests", "cache_hits", "errors"} \subseteq DOMAIN get_stats

(* C19: every Classification returned by classify has a confidence from    *)
(* 0.0 to 1.0                                                              *)
C19_ConfidenceInUnitInterval ==
    \A k \in 1..Len(calls) :
        /\ 0 <= calls[k].returned.confidence
        /\ calls[k].returned.confidence <= ConfidenceUnit

(* The rule of an application of _match_geometry checks the area, or the   *)
(* vertex count, of its context                                            *)
checks_area(call) ==
    /\ "area_range" \in DOMAIN _build_rules[call.rule]
    /\ "area" \in DOMAIN call.context
    /\ call.context["area"] # 0

checks_vertices(call) ==
    /\ "vertex_range" \in DOMAIN _build_rules[call.rule]
    /\ "vertex_count" \in DOMAIN call.context
    /\ call.context["vertex_count"] # 0

(* min_area <= area <= max_area, the bounds being rationals *)
area_in_range(call) ==
    LET range == _build_rules[call.rule].area_range
        area  == call.context["area"]
    IN  /\ range[1].num <= area * range[1].den
        /\ area * range[2].den <= range[2].num

vertices_in_range(call) ==
    LET range == _build_rules[call.rule].vertex_range
    IN  range[1] <= call.context["vertex_count"] /\ call.context["vertex_count"] <= range[2]

(* C20, as stated: the geometry score of every rule and context is one of  *)
(* 0.3, 0.5, 0.7, 1.0                                                      *)
C20_FourValues ==
    \A k \in 1..Len(calls) : calls[k].score \in {30, 50, 70, ScoreUnit}

(* C20, amended: the geometry score is the product of an area factor (1.0, *)
(* 0.7 or 0.3) and a vertex factor (1.0 or 0.5): 1.0 if nothing is checked *)
(* or all that is checked is in range; 0.3 or 0.7 if only the area is out  *)
(* of range; 0.5 if only the vertex count is; 0.15 or 0.35 if both are     *)
C20_ProductOfFactors ==
    \A k \in 1..Len(calls) :
        LET area_out     == checks_area(calls[k]) /\ ~area_in_range(calls[k])
            vertices_out == checks_vertices(calls[k]) /\ ~vertices_in_range(calls[k])
        IN  calls[k].score \in
                (IF area_out /\ vertices_out THEN {15, 35}
                 ELSE IF area_out THEN {30, 70}
                 ELSE IF vertices_out THEN {50}
                 ELSE {ScoreUnit})

(* The column rule with an area a little under its range and 3 vertices:   *)
(* 0.7 x 0.5                                                               *)
C20_Witness ==
    /\ Len(calls) = 1
    /\ status = "score"
    /\ checks_area(calls[1])
    /\ checks_vertices(calls[1])
    /\ calls[1].score = 35

(* C21: for a rule that declares an area range (min, max) and a context    *)
(* that has an area a, 0 included, the area factor is 1.0 if               *)
(* min <= a <= max, 0.3 if a < min / 2 or a > 2 * max, and 0.7 otherwise;  *)
(* it is the neutral 1.0 only if the rule declares no area range or the    *)
(* context has no area.  Stated for the applications in which no vertex    *)
(* count is checked, where the score is the area factor                    *)
C21_AreaFactor ==
    \A k \in 1..Len(calls) :
        ~checks_vertices(calls[k]) =>
            LET rule == _build_rules[calls[k].rule]
                a    == calls[k].context["area"]
            IN  calls[k].score =
                    IF "area_range" \in DOMAIN rule /\ "area" \in DOMAIN calls[k].context
                        THEN IF area_in_range(calls[k]) THEN ScoreUnit
                             ELSE IF \/ 2 * a * rule.area_range[1].den < rule.area_range[1].num
                                     \/ a * rule.area_range[2].den > 2 * rule.area_range[2].num
                                THEN 30
                             ELSE 70
                        ELSE ScoreUnit

(* The segments of a name: its longest parts without "$" *)
segments(name) ==
    {SubSeq(name, i, j) : i \in 1..(Len(name) + 1), j \in 0..Len(name)} \cap
    {SubSeq(name, i, j) : <<i, j>> \in
        {p \in (1..(Len(name) + 1)) \X (0..Len(name)) :
            /\ p[1] <= p[2] + 1
            /\ \A x \in p[1]..p[2] : name[x] # "$"
            /\ (p[1] = 1 \/ name[p[1] - 1] = "$")
            /\ (p[2] = Len(name) \/ name[p[2] + 1] = "$")}}

(* A pattern of the i-th rule matches somewhere in the name or in one of   *)
(* its segments                                                            *)
rule_hits(i, name) ==
    \E k \in 1..Len(_build_rules[i].keywords) :
        \/ search(_build_rules[i].keywords[k], name)
        \/ \E part \in segments(name) : search(_build_rules[i].keywords[k], part)

(* C22: the keyword score of a rule for a name is 1.0 exactly if one of    *)
(* the patterns of the rule matches, without case, somewhere in the name   *)
(* or in one of its segments between "$", and 0.0 otherwise, in whatever   *)
(* order the patterns are listed; and a rule whose keyword score is 0.0    *)
(* does not give the classification: an accepted result has the category,  *)
(* type and final score of a rule that hits                                *)
C22_KeywordScore ==
    \A k \in 1..Len(calls) :
        calls[k].score # -1 =>
            /\ calls[k].score = IF rule_hits(calls[k].rule, calls[k].block_name)
                                   THEN ScoreUnit ELSE 0
            /\ rule_accepted(calls[k]) =>
                  \E j \in 1..Len(_build_rules) :
                      /\ rule_hits(j, calls[k].block_name)
                      /\ calls[k].returned.category = _build_rules[j].category
                      /\ calls[k].returned.type = _build_rules[j].type
                      /\ calls[k].returned.confidence =
                            _build_rules[j].confidence * ScoreUnit
                                * _match_geometry(calls[k].context, _build_rules[j])

(* No keyword of the rule matches the name and one matches a segment of    *)
(* it: the score is 1.0, with the keywords in the opposite order, and the  *)
(* name is classified by a rule                                            *)
C22_Witness ==
    /\ status = "keywords"
    /\ calls[1].score = ScoreUnit
    /\ calls[1].reversed
    /\ \A k \in 1..Len(_build_rules[calls[1].rule].keywords) :
          ~search(_build_rules[calls[1].rule].keywords[k], calls[1].block_name)
    /\ rule_accepted(calls[1])

(* The entity is made for an instance inside a block, not for one of model *)
(* space                                                                   *)
is_nested(entity) == Len(entity.path) > 1

(* C23: the entity of a nested instance depends only on the insertion      *)
(* point, rotation and scale of that instance and on the geometry its      *)
(* block resolves to: its vertices are that geometry under the placement   *)
(* of the instance itself, its area is the area of these vertices, its     *)
(* insert_point and rotation are those of the instance; so two nested      *)
(* instances with the same block and placement, below instances that are   *)
(* placed differently, have entities with the same vertices, area,         *)
(* insert_point and rotation                                               *)
C23_OwnPlacementOnly ==
    status = "done" =>
        /\ \A e \in Range(result) :
              is_nested(e) =>
                  LET ins == InsertAt(e.path)
                      geometry == scan_block(doc.blocks[ins.name], 1, NoList, 0)
                  IN  /\ e.vertices = transform_vertices(geometry.list, ins.insert,
                                          ins.rotation, ins.xscale, ins.yscale)
                      /\ e.area = calculate_area(e.vertices)
                      /\ e.insert_point = ins.insert
                      /\ e.rotation = ins.rotation
        /\ \A e1, e2 \in Range(result) :
              (is_nested(e1) /\ is_nested(e2) /\ InsertAt(e1.path) = InsertAt(e2.path))
                  => /\ e1.vertices = e2.vertices
                     /\ e1.area = e2.area
                     /\ e1.insert_point = e2.insert_point
                     /\ e1.rotation = e2.rotation

(* The list returned has the entities of two equal instances, one inside   *)
(* an instance of model space and one inside another instance of model     *)
(* space, which is placed, turned and scaled differently                   *)
C23_Witness ==
    /\ status = "done"
    /\ \E e1, e2 \in Range(result) :
          /\ is_nested(e1) /\ is_nested(e2)
          /\ InsertAt(e1.path) = InsertAt(e2.path)
          /\ InsertAt(<<e1.path[1]>>).insert # InsertAt(<<e2.path[1]>>).insert
          /\ InsertAt(<<e1.path[1]>>).rotation # InsertAt(<<e2.path[1]>>).rotation
          /\ InsertAt(<<e1.path[1]>>).xscale # InsertAt(<<e2.path[1]>>).xscale
          /\ InsertAt(e1.path).insert # NoPoint
          /\ e1.vertices = e2.vertices

(* C24: extract_all_blocks returns exactly one entity for each visited     *)
(* instance reference whose block resolves to a geometry and none for any  *)
(* other; the visited instance references are those reached from model     *)
(* space through blocks the document defines, at a depth of at most        *)
(* max_depth, through blocks without a geometry too; every entity has at   *)
(* least 3 vertices, as many as the polygon its block resolves to, and no  *)
(* classification                                                          *)
C24_OneEntityPerResolvedInstance ==
    status = "done" =>
        /\ \A p \in VisitedWithGeometry :
              Cardinality({i \in 1..Len(result) : result[i].path = p}) = 1
        /\ \A i \in 1..Len(result) : result[i].path \in VisitedWithGeometry
        /\ \A e \in Range(result) :
              /\ Len(e.vertices) >= 3
              /\ Len(e.vertices) =
                    Len(scan_block(doc.blocks[e.block_name], 1, NoList, 0).list)
              /\ e.block_name = InsertAt(e.path).name
              /\ e.classification = None

(* The list returned has the entity of an instance inside a block without  *)
(* geometry, and there are instance references without entity: one whose   *)
(* block has no geometry and one below the depth limit                     *)
C24_Witness ==
    /\ status = "done"
    /\ \E e \in Range(result) :
          /\ is_nested(e)
          /\ ~HasGeometry(InsertAt(SubSeq(e.path, 1, Len(e.path) - 1)).name)
    /\ Visited \ (VisitedWithGeometry \cup VisitedMissing) # {}
    /\ warnings.depth > 0
    /\ Len(result) >= 3

(* The calls so far that returned with the method *)
returned_by(method) == {k \in 1..Len(calls) : calls[k].returned.method = method}

(* C25: after any sequence of calls of RuleBasedClassifier.classify, with  *)
(* or without cache, total_requests = cache_hits + rule_matches +          *)
(* unclassified, and cache_hits is the number of calls that returned with  *)
(* the method cached                                                       *)
C25_CountersAddUp ==
    classifier = "rule-based" =>
        /\ stats.total_requests =
              stats.cache_hits + stats.rule_matches + stats.unclassified
        /\ stats.total_requests = Len(calls)
        /\ stats.cache_hits = Cardinality(returned_by("cached"))

(* Three calls: one answered by a rule, one unclassified, and one from the *)
(* cache                                                                   *)
C25_Witness ==
    /\ classifier = "rule-based"
    /\ stats.total_requests = 3
    /\ stats.cache_hits = 1
    /\ stats.rule_matches = 1
    /\ stats.unclassified = 1
    /\ Cardinality(returned_by("cached")) = 1

(* C26 as claimed: after any sequence of calls of classify and of          *)
(* batch_classify of the LLM classifier, cache_hits <= total_requests, so  *)
(* that the cache_hit_rate of get_stats is at most 1, and                  *)
(* total_requests = cache_hits + api_calls + errors.                       *)
(* Violated: batch_classify counts the hit of a cached block and not the   *)
(* request.                                                                *)
C26_HitsWithinRequests ==
    classifier = "llm" =>
        /\ stats.cache_hits <= stats.total_requests
        /\ get_stats["cache_hit_rate"].num <= get_stats["cache_hit_rate"].den
        /\ stats.total_requests = stats.cache_hits + stats.api_calls + stats.errors

(* The calls so far that are calls of batch_classify *)
batch_calls == {k \in 1..Len(calls) : "blocks" \in DOMAIN calls[k]}

(* C27 as claimed: batch_classify(blocks) returns a list as long as blocks *)
(* whose i-th element is the classification of the i-th block, whatever    *)
(* blocks are cached: the entry of the cache, with the method cached, for  *)
(* a block that has one when the call is made, and the result of the       *)
(* backend or of its failure for a name that is not cached and occurs      *)
(* here for the first time.                                                *)
(* Violated: the results of the cached blocks come first.                  *)
C27_BatchKeepsOrder ==
    \A k \in batch_calls :
        /\ Len(calls[k].returned) = Len(calls[k].blocks)
        /\ \A i \in 1..Len(calls[k].blocks) :
              LET cached == CacheManager_get(calls[k].cache_before.cache,
                                             calls[k].blocks[i])
              IN  IF cached_found(cached)
                     THEN calls[k].returned[i] =
                             Classification(cached.value["category"],
                                 cached.value["type"], cached.value["confidence"],
                                 cached.value["reasoning"], "cached")
                     ELSE (\A j \in 1..(i - 1) : calls[k].blocks[j] # calls[k].blocks[i])
                             => calls[k].returned[i].method \in {"llm", "error"}

(* The cache had no entry for the name when the classifier was made: it    *)
(* has none now, or one that a call has stored (a loaded entry has the     *)
(* time 0)                                                                 *)
absent_at_first(block_name) ==
    \/ block_name \notin DOMAIN cache_manager.cache
    \/ cache_manager.cache[block_name]["cached_at"] > 0

(* The calls so far for the name *)
calls_for(block_name) == {k \in 1..Len(calls) : calls[k].block_name = block_name}

(* C28: with the cache enabled and at first without entry for a name, and  *)
(* no clear: the first call of classify for the name returns what the      *)
(* rules give, with the method rule-based, and every later call for the    *)
(* name returns the method cached with the category, type and confidence   *)
(* of the first call, whatever its context                                 *)
C28_FirstCallDecides ==
    (classifier = "rule-based" /\ enable_cache) =>
        \A k \in 1..Len(calls) :
            absent_at_first(calls[k].block_name) =>
                LET first == lowest(calls_for(calls[k].block_name))
                IN  IF k = first
                       THEN /\ calls[k].returned.method = "rule-based"
                            /\ calls[k].returned =
                                  rule_results[calls[k].block_name][calls[k].context].result
                       ELSE /\ calls[k].returned.method = "cached"
                            /\ calls[k].returned.category = calls[first].returned.category
                            /\ calls[k].returned.type = calls[first].returned.type
                            /\ calls[k].returned.confidence =
                                  calls[first].returned.confidence

(* Three calls for one name, not in the cache at first, with three         *)
(* contexts: the first is answered by a rule, and for the contexts of the  *)
(* two others the rules would give another type or no classification      *)
C28_Witness ==
    /\ classifier = "rule-based" /\ enable_cache
    /\ Len(calls) = 3
    /\ calls_for(calls[1].block_name) = {1, 2, 3}
    /\ absent_at_first(calls[1].block_name)
    /\ calls[1].context # calls[2].context
    /\ calls[2].context # calls[3].context
    /\ calls[1].context # calls[3].context
    /\ rule_accepted(calls[1])
    /\ calls[3].returned.method = "cached"
    /\ calls[3].returned.type = calls[1].returned.type
    /\ \A k \in {2, 3} :
          rule_results[calls[k].block_name][calls[k].context].result.type
              # calls[1].returned.type

(* The geometry of the context against the j-th rule, from the rule table: *)
(* the area is checked and is below half the minimum or above twice the    *)
(* maximum (factor 0.3); the vertex count is checked and out of its range  *)
(* (factor 0.5)                                                            *)
area_far_out(j, context) ==
    LET check == [rule |-> j, context |-> context]
        range == _build_rules[j].area_range
    IN  /\ checks_area(check)
        /\ \/ 2 * context["area"] * range[1].den < range[1].num
           \/ context["area"] * range[2].den > 2 * range[2].num

vertices_out(j, context) ==
    LET check == [rule |-> j, context |-> context]
    IN  checks_vertices(check) /\ ~vertices_in_range(check)

(* The classification is the one the j-th rule gives for the name and the  *)
(* context                                                                 *)
given_by(call, j) ==
    /\ keyword_scores[call.block_name][j] > 0
    /\ call.returned.category = _build_rules[j].category
    /\ call.returned.type = _build_rules[j].type
    /\ call.returned.confidence =
          _build_rules[j].confidence * ScoreUnit
              * _match_geometry(call.context, _build_rules[j])

(* C29: with the rule table of the program, a rule whose area factor is    *)
(* 0.3 or whose vertex factor is 0.5 for the context does not give the     *)
(* classification: every result of the rules is other / unclassified with  *)
(* the confidence 0.3, or that of a rule with a geometry score of 0.7 or   *)
(* 1.0 and a confidence above 0.5 and at most 0.98                         *)
C29_PenalisedRuleNotEmitted ==
    \A k \in 1..Len(calls) :
        calls[k].applied =>
            /\ \A j \in 1..Len(_build_rules) :
                  (area_far_out(j, calls[k].context) \/ vertices_out(j, calls[k].context))
                      => ~(rule_accepted(calls[k]) /\ given_by(calls[k], j))
            /\ \/ /\ calls[k].returned.category = "other"
                  /\ calls[k].returned.type = "unclassified"
                  /\ calls[k].returned.confidence = 3 * (ConfidenceUnit \div 10)
               \/ \E j \in 1..Len(_build_rules) :
                      /\ given_by(calls[k], j)
                      /\ ~area_far_out(j, calls[k].context)
                      /\ ~vertices_out(j, calls[k].context)
                      /\ _match_geometry(calls[k].context, _build_rules[j])
                            \in {70, ScoreUnit}
                      /\ 2 * calls[k].returned.confidence > ConfidenceUnit
                      /\ calls[k].returned.confidence <= 98 * ScoreUnit * ScoreUnit

(* The only rule that matches the name has the area of the context in its  *)
(* range and the vertex count out of its range: the result is other /      *)
(* unclassified                                                            *)
C29_Witness ==
    /\ status = "rules"
    /\ calls[1].applied
    /\ calls[1].returned.category = "other"
    /\ \E j \in 1..Len(_build_rules) :
          /\ matching_rules(calls[1].block_name) = {j}
          /\ vertices_out(j, calls[1].context)
          /\ checks_area([rule |-> j, context |-> calls[1].context])
          /\ area_in_range([rule |-> j, context |-> calls[1].context])

(* C30: a remote classifier does not store a failure: a call of classify   *)
(* that returns the method error leaves the cache as it was, without entry *)
(* for the name, so that the next call for the name asks the backend       *)
(* again; and a call changes the cache only by storing, for its name, the  *)
(* result of the backend it returns                                        *)
C30_ErrorNotCached ==
    [][(classifier \in RemoteClassifiers /\ classify_step) =>
          LET call == calls'[Len(calls')]
          IN  /\ call.returned.method = "error" =>
                    /\ cache_manager' = cache_manager
                    /\ ~holds_entry(call.block_name)
                    /\ call.block_name \notin DOMAIN cache_manager'.cache
              /\ cache_manager' # cache_manager =>
                    /\ call.returned.method = classifier
                    /\ \A n \in DOMAIN cache_manager'.cache :
                          n # call.block_name =>
                              /\ n \in DOMAIN cache_manager.cache
                              /\ cache_manager'.cache[n] = cache_manager.cache[n]
                    /\ call.block_name \in DOMAIN cache_manager'.cache
                    /\ cache_manager'.cache[call.block_name]["category"]
                          = call.returned.category
                    /\ cache_manager'.cache[call.block_name]["confidence"]
                          = call.returned.confidence]_vars

(* With the cache enabled, a call fails and the next call for the same     *)
(* name reaches the backend, whose result is stored                        *)
C30_Witness ==
    /\ classifier \in RemoteClassifiers
    /\ enable_cache
    /\ Len(calls) = 2
    /\ calls[1].returned.method = "error"
    /\ calls[2].block_name = calls[1].block_name
    /\ ~calls[2].response.is_none
    /\ calls[2].returned.method = classifier
    /\ holds_entry(calls[2].block_name)

=============================================================================
